---- MODULE Spec2Model ----
(***************************************************************************)
(* Verification model of the Bouquet retrieval engine.                     *)
(*                                                                         *)
(* Part 1 (SpecQuery): the query pipelines of QueryEngine,                 *)
(* AdvancedQueryEngine and UltraAdvancedQueryEngine: fan-out retrieval,    *)
(* deduplication, similarity gate, reranking, feedback adjustment and      *)
(* answer generation.                                                      *)
(*                                                                         *)
(* Scores are integers: one unit stands for one step of the float scale.   *)
(* Only comparisons and additions of scores are modelled, so the unit is   *)
(* immaterial.                                                             *)
(***************************************************************************)
EXTENDS Integers, Sequences, FiniteSets, TLC

VARIABLES
    engine,                    \* which engine class serves the query
    min_similarity_threshold,  \* constructor argument of the engine
    chunk_scores,              \* FeedbackService.chunk_scores (chunk_id -> accumulator)
    qpc,                       \* position inside query()
    all_results,               \* all_results / search_results
    unique_results,            \* unique_results / high_quality_results / reranked_results
    response,                  \* what query() gave back to its caller
    failed_call,               \* history: the external call of this query that failed
    \* --- ingestion (DocumentProcessor, EnhancedDocumentProcessor) ---
    ipath,            \* which ingestion path runs
    content_blank,    \* document.content is empty or whitespace-only
    extract_entities, \* the extract_entities argument
    n_chunks,         \* how many chunks the chunker yields for the document's text
    ipc,              \* position inside the ingestion call
    generated,        \* chunks generated by the chunker so far
    cur,              \* index of the chunk being processed
    doc_created,      \* GraphStore: the Document node exists
    created_chunks,   \* GraphStore: chunks persisted (create_chunk)
    embedded,         \* GraphStore: chunks with an embedding (set_chunk_embedding)
    extracted,        \* chunks whose entities and relationships were extracted and saved
    extraction_failed,\* history: chunks whose entity extraction raised
    batch_state,      \* _process_entities_batch: state of every chunk's task
    chunk_count,      \* the chunk count the call reports
    ingest_result,    \* "pending", "ok" (returned) or "raised"
    ingest_failure,   \* history: the non-extraction call that failed
    \* --- community hierarchy (GraphBuilder.build_hierarchical_communities) ---
    min_community_size, \* constructor argument of GraphBuilder
    current_graph,    \* current_graph: [nodes, w], w maps an edge {a, b} to its weight
    current_level,    \* current_level
    groups,           \* communities_dict entries not yet visited at this level
    level_communities,\* level_communities
    all_levels,       \* all_levels
    persisted,        \* GraphStore: ids of the Community nodes created
    hpc,              \* position inside build_hierarchical_communities
    hresult,          \* "pending", "ok" (returned) or "raised"
    clustered,        \* history: node count of the graph clustered at each level
    summary_failed,   \* history: members of the community whose summary query raised
    \* --- hybrid fusion (HybridSearchEngine) ---
    vector_results,   \* vector_results: (chunk, score) pairs
    bm25_results,     \* bm25_results: (idx, score) pairs
    indexed_chunks,   \* HybridSearchEngine.indexed_chunks
    fusion,           \* "none", "rrf" or "combine": the fusion that was called
    rrf_k,            \* the k of reciprocal_rank_fusion
    normalize,        \* the normalize flag of combine_scores
    fused,            \* the list the fusion returned
    fusion_raised,    \* the fusion ended with an exception
    \* --- chunkers (DocumentProcessor._create_chunks_streaming, SemanticChunker) ---
    chunker,          \* "fixed" or "semantic"
    text,             \* the document text, a sequence of characters
    chunk_size,       \* DocumentProcessor.chunk_size
    chunk_overlap,    \* DocumentProcessor.chunk_overlap
    start,            \* start
    chunk_index,      \* chunk_index
    sentences,        \* SemanticChunker: lengths of the sentences of the text
    low_similarity,   \* SemanticChunker: similarities[i] < semantic_threshold
    min_chunk_size,   \* SemanticChunker.min_chunk_size
    max_chunk_size,   \* SemanticChunker.max_chunk_size
    chunks,           \* the chunks emitted so far
    cpc,              \* "run" or "done"
    \* --- feedback recording (FeedbackService.record_feedback) ---
    feedback_entry,   \* the entry appended to feedback_data by the last call
    feedback_count,   \* number of record_feedback calls so far
    feedback_file,    \* chunk_scores as written by _save_feedback
    \* --- strategy resolution (AdvancedQueryEngine._retrieve, _select_strategy) ---
    query_words,      \* the query text, as its words
    strategy,         \* the strategy argument of _retrieve
    resolved,         \* the strategy _retrieve runs ("none" before the call)
    \* --- retried leaf calls (EmbeddingService, EntityExtractor) ---
    leaf_call,        \* the retried method that was called ("none" when idle)
    cache,            \* the embedding cache as generate_embedding finds it
    attempt_number,   \* attempts made so far
    outcomes,         \* what each attempt did, in order
    leaf_result,      \* what the caller receives: <<"pending">>, <<"value", v>> or <<"RetryError", e>>
    slept,            \* seconds slept between attempts
    tpc,              \* "idle", "calling", "waiting", "returned", "raised"
    \* --- cache (CacheService, QueryCache) ---
    redis_mode,       \* "not_configured", "healthy", "down" or "flaky"
    redis_store,      \* the Redis database: key -> serialized value, or RedisNil
    memory_cache,     \* self.memory_cache: <<key, value>> pairs in insertion order
    max_memory_items, \* self.max_memory_items
    cache_hits,       \* self.cache_hits
    cache_misses,     \* self.cache_misses
    last_op,          \* the last call and what it returned
    expected,         \* bookkeeping: key -> value of the last set no later call touched
    stale,            \* bookkeeping: query keys cached when invalidate_all returned
    \* --- query fan-out (AdvancedQueryEngine.query, UltraAdvancedQueryEngine.query) ---
    fan_engine,       \* "advanced" or "ultra"
    hyde,             \* hyde_service: "none", "disabled", "fails" or "generates"
    subqueries,       \* texts of the sub-queries
    query_variants,   \* texts of the query variants
    si,               \* position of the outer loop in subqueries
    vi,               \* position of the inner loop in query_variants
    calls,            \* the _retrieve calls made so far
    fan_results,      \* all_results of the fan-out
    opc,              \* "idle", "loop", "collected" or "raised"
    \* --- graph traversal search (AdvancedQueryEngine._graph_traversal_search) ---
    graph_top_k,      \* the top_k argument
    initial_results,  \* what _vector_search(query, top_k // 3) returned
    traversed,        \* seeds of initial_results[:3] already expanded
    graph_results,    \* all_results
    graph_returned,   \* the list the search returned
    gpc,              \* "idle", "traverse", "done" or "raised"
    \* --- entity persistence (create_entity, link_chunk_to_entity, create_relationship) ---
    entity_store,     \* Entity nodes: <<name, entity_type>> -> id of the node, 0 when absent
    contains_entity,  \* CONTAINS_ENTITY edges: <<chunk, entity id>>
    related,          \* RELATED edges: <<source id, target id>>
    next_uuid,        \* the next value uuid4() gives
    entity_chunks,    \* chunks whose extraction was persisted
    last_extraction   \* the entities and the relationship of the last chunk

qvars == <<engine, min_similarity_threshold, chunk_scores, qpc, all_results,
           unique_results, response, failed_call>>

ivars == <<ipath, content_blank, extract_entities, n_chunks, ipc, generated, cur,
           doc_created, created_chunks, embedded, extracted, extraction_failed,
           batch_state, chunk_count, ingest_result, ingest_failure>>

hvars == <<min_community_size, current_graph, current_level, groups, level_communities,
           all_levels, persisted, hpc, hresult, clustered, summary_failed>>

fvars == <<vector_results, bm25_results, indexed_chunks, fusion, rrf_k, normalize,
           fused, fusion_raised>>

cvars == <<chunker, text, chunk_size, chunk_overlap, start, chunk_index, sentences,
           low_similarity, min_chunk_size, max_chunk_size, chunks, cpc>>

\* The query pipeline's variables other than the accumulators.
q_rest == <<engine, min_similarity_threshold, qpc, all_results, unique_results,
            response, failed_call>>

rvars == <<feedback_entry, feedback_count, feedback_file>>

svars == <<query_words, strategy, resolved>>

tvars == <<leaf_call, cache, attempt_number, outcomes, leaf_result, slept, tpc>>

kvars == <<redis_mode, redis_store, memory_cache, max_memory_items, cache_hits,
           cache_misses, last_op, expected, stale>>

ovars == <<fan_engine, hyde, subqueries, query_variants, si, vi, calls, fan_results, opc>>

gvars == <<graph_top_k, initial_results, traversed, graph_results, graph_returned, gpc>>

evars == <<entity_store, contains_entity, related, next_uuid, entity_chunks, last_extraction>>

vars == <<qvars, ivars, hvars, fvars, cvars, rvars, svars, tvars, kvars, ovars, gvars, evars>>

\* Everything outside the query pipeline, outside ingestion, outside the hierarchy.
others_q == <<ivars, hvars, fvars, cvars, rvars, svars, tvars, kvars, ovars, gvars, evars>>
others_i == <<qvars, hvars, fvars, cvars, rvars, svars, tvars, kvars, ovars, gvars, evars>>
others_h == <<qvars, ivars, fvars, cvars, rvars, svars, tvars, kvars, ovars, gvars, evars>>
others_f == <<qvars, ivars, hvars, cvars, rvars, svars, tvars, kvars, ovars, gvars, evars>>
others_c == <<qvars, ivars, hvars, fvars, rvars, svars, tvars, kvars, ovars, gvars, evars>>
others_r == <<q_rest, ivars, hvars, fvars, cvars, svars, tvars, kvars, ovars, gvars, evars>>
others_s == <<qvars, ivars, hvars, fvars, cvars, rvars, tvars, kvars, ovars, gvars, evars>>
others_t == <<qvars, ivars, hvars, fvars, cvars, rvars, svars, kvars, ovars, gvars, evars>>
others_k == <<qvars, ivars, hvars, fvars, cvars, rvars, svars, tvars, ovars, gvars, evars>>
others_o == <<qvars, ivars, hvars, fvars, cvars, rvars, svars, tvars, kvars, gvars, evars>>
others_g == <<qvars, ivars, hvars, fvars, cvars, rvars, svars, tvars, kvars, ovars, evars>>
others_e == <<qvars, ivars, hvars, fvars, cvars, rvars, svars, tvars, kvars, ovars, gvars>>

----------------------------------------------------------------------------
(* Bounds of the model *)

MaxCandidates == 3      \* candidates gathered by the fan-out of one query
MaxScore == 1           \* largest retrieval score (scores range over -1..MaxScore)
MaxThreshold == 1       \* largest configured min_similarity_threshold
RerankTopK == 2         \* rerank_top_k of the engine

ChunkIds == {"c1", "c2"}
Scores == (0 - 1)..MaxScore
Thresholds == 0..MaxThreshold
RerankValues == {0 - 1, 0, 1}     \* what the cross-encoder may predict
FeedbackValues == {0 - 1, 1}      \* accumulators found in the feedback file
Engines == {"basic", "advanced", "ultra"}

----------------------------------------------------------------------------
(* Pure helpers *)

\* list.sort(key=..., reverse=True): a stable sort, descending by key.
\* k[i] is the key of s[i].
StableSortDesc(s, k) ==
    LET n == Len(s)
        Rank(j) == 1 + Cardinality({i \in 1..n : k[i] > k[j] \/ (k[i] = k[j] /\ i < j)})
    IN  [p \in 1..n |-> s[CHOOSE j \in 1..n : Rank(j) = p]]

\* The elements of s at the indices in I, in the order of s.
SubSeqAt(s, I) ==
    [p \in 1..Cardinality(I) |->
        s[CHOOSE i \in I : Cardinality({j \in I : j < i}) = p - 1]]

\* s[:n]
Take(s, n) == SubSeq(s, 1, IF Len(s) < n THEN Len(s) ELSE n)

SearchResult(c, s) ==
    [chunk_id |-> c, score |-> s, rerank_score |-> 0, retrieval_score |-> s]

\* seen_chunks / unique_results loop: the first occurrence of every chunk_id is kept.
Deduplicated(results) ==
    SubSeqAt(results,
             {i \in 1..Len(results) :
                 \A j \in 1..(i - 1) : results[j].chunk_id # results[i].chunk_id})

\* Mutant of HighQuality: the filter lets every candidate through.
HighQualityKeepsAll(results, threshold) == results

\* [r for r in results if r.score >= self.min_similarity_threshold]
HighQuality(results, threshold) ==
    SubSeqAt(results, {i \in 1..Len(results) : results[i].score >= threshold})

\* Mutant of GateRejects: the gate also rejects when the threshold is 0.
GateRejectsAtZero(high_quality, threshold) ==
    Len(high_quality) = 0 /\ threshold >= 0

\* "if not high_quality_results: if self.min_similarity_threshold > 0: return ..."
GateRejects(high_quality, threshold) ==
    Len(high_quality) = 0 /\ threshold > 0

\* RerankerService.rerank_search_results: predicted[i] is the cross-encoder's score
\* of results[i]; sort by "rerank_score or 0", then "if top_k: results[:top_k]".
RerankSearchResults(results, predicted, top_k) ==
    LET scored == [i \in 1..Len(results) |->
                      [results[i] EXCEPT !.rerank_score = predicted[i]]]
        sorted == StableSortDesc(scored, [i \in 1..Len(scored) |-> scored[i].rerank_score])
    IN  IF top_k # 0 THEN Take(sorted, top_k) ELSE sorted

\* QueryEngine.rerank: sorted(results, key=score, reverse=True)[:top_k]
BasicRerank(results, top_k) ==
    Take(StableSortDesc(results, [i \in 1..Len(results) |-> results[i].score]), top_k)

\* FeedbackService.get_chunk_feedback_score: chunk_scores.get(chunk_id, 0.0)
GetChunkFeedbackScore(scores, c) == IF c \in DOMAIN scores THEN scores[c] ELSE 0

\* "r.rerank_score or r.score": a rerank score of None or 0.0 falls back to the score.
\* (None is represented by 0: the two are indistinguishable to every expression
\* of the pipeline, which reads rerank_score only through "or".)
ScoreForFeedback(r) == IF r.rerank_score # 0 THEN r.rerank_score ELSE r.score

\* FeedbackService.apply_feedback_to_scores on (chunk, score) tuples: add the
\* accumulator of the tuple's chunk, then re-sort the tuples by adjusted score.
ApplyFeedbackToScores(tuples, scores) ==
    LET adjusted == [i \in 1..Len(tuples) |->
                        [chunk_id |-> tuples[i].chunk_id,
                         score |-> tuples[i].score + GetChunkFeedbackScore(scores, tuples[i].chunk_id)]]
    IN  StableSortDesc(adjusted, [i \in 1..Len(adjusted) |-> adjusted[i].score])

\* Step 5 of AdvancedQueryEngine.query: unique_results[i].score = adjusted[i][1]
FeedbackAdjusted(results, scores) ==
    LET tuples == [i \in 1..Len(results) |->
                      [chunk_id |-> results[i].chunk_id, score |-> ScoreForFeedback(results[i])]]
        adjusted == ApplyFeedbackToScores(tuples, scores)
    IN  [i \in 1..Len(results) |-> [results[i] EXCEPT !.score = adjusted[i].score]]

NoResponse == [kind |-> "pending", answer |-> "none", reason |-> "none", sources |-> <<>>]

----------------------------------------------------------------------------
(* The query pipeline *)

QInit ==
    /\ engine \in Engines
    /\ min_similarity_threshold \in Thresholds
    \* FeedbackService._load_feedback; QueryEngine has no feedback service.
    /\ chunk_scores \in UNION {[D -> FeedbackValues] : D \in SUBSET ChunkIds}
    /\ engine = "basic" => chunk_scores = << >>
    /\ qpc = "retrieve"
    /\ all_results = << >>
    /\ unique_results = << >>
    /\ response = NoResponse
    /\ failed_call = "none"

\* One result of the fan-out (a _retrieve call of some sub-query and variant, or
\* one row of QueryEngine.search) is appended to all_results.
Retrieve ==
    /\ qpc = "retrieve"
    /\ Len(all_results) < MaxCandidates
    /\ \E c \in ChunkIds, s \in Scores :
           all_results' = Append(all_results, SearchResult(c, s))
    /\ UNCHANGED <<engine, min_similarity_threshold, chunk_scores, qpc,
                   unique_results, response, failed_call>>
    /\ UNCHANGED others_q

\* The embedding or the graph store fails during retrieval: the exception leaves query().
RetrieveFails ==
    /\ qpc = "retrieve"
    /\ qpc' = "done"
    /\ failed_call' = "retrieve"
    /\ response' = [NoResponse EXCEPT !.kind = "raised"]
    /\ UNCHANGED <<engine, min_similarity_threshold, chunk_scores, all_results,
                   unique_results>>
    /\ UNCHANGED others_q

NoResultsResponse ==
    [kind |-> "response", answer |-> "no_results",
     reason |-> IF engine = "ultra" THEN "none" ELSE "no_results", sources |-> << >>]

\* AdvancedQueryEngine / UltraAdvancedQueryEngine: the seen_chunks loop.
Deduplicate ==
    /\ qpc = "retrieve"
    /\ engine \in {"advanced", "ultra"}
    /\ unique_results' = Deduplicated(all_results)
    /\ qpc' = "deduped"
    /\ UNCHANGED <<engine, min_similarity_threshold, chunk_scores, all_results,
                   response, failed_call>>
    /\ UNCHANGED others_q

\* "if not unique_results: return empty_response". all_results is not read after
\* this point and is forgotten here. UltraAdvancedQueryEngine.query has no
\* similarity gate and goes on to reranking.
CheckEmpty ==
    /\ qpc = "deduped"
    /\ IF Len(unique_results) = 0
       THEN /\ response' = NoResultsResponse
            /\ qpc' = "done"
       ELSE /\ response' = response
            /\ qpc' = IF engine = "advanced" THEN "threshold" ELSE "rerank"
    /\ all_results' = << >>
    /\ UNCHANGED <<engine, min_similarity_threshold, chunk_scores, unique_results,
                   failed_call>>
    /\ UNCHANGED others_q

\* QueryEngine: search() has returned its rows; "if not search_results".
SearchDone ==
    /\ qpc = "retrieve"
    /\ engine = "basic"
    /\ unique_results' = all_results
    /\ all_results' = << >>
    /\ IF Len(all_results) = 0
       THEN /\ response' = NoResultsResponse
            /\ qpc' = "done"
       ELSE /\ response' = response
            /\ qpc' = "threshold"
    /\ UNCHANGED <<engine, min_similarity_threshold, chunk_scores, failed_call>>
    /\ UNCHANGED others_q

InsufficientResponse ==
    [kind |-> "response", answer |-> "insufficient",
     reason |-> "below_similarity_threshold", sources |-> << >>]

\* The similarity gate of QueryEngine and AdvancedQueryEngine.
Threshold ==
    /\ qpc = "threshold"
    /\ LET high_quality == HighQuality(unique_results, min_similarity_threshold)
       IN  IF GateRejects(high_quality, min_similarity_threshold)
           THEN /\ response' = InsufficientResponse
                /\ qpc' = "done"
                /\ UNCHANGED unique_results
           ELSE /\ unique_results' =
                      IF Len(high_quality) = 0 THEN unique_results ELSE high_quality
                /\ qpc' = "rerank"
                /\ UNCHANGED response
    /\ UNCHANGED <<engine, min_similarity_threshold, chunk_scores, all_results,
                   failed_call>>
    /\ UNCHANGED others_q

\* Step 4, "if use_reranking and self.reranker"; QueryEngine sorts by score.
Rerank ==
    /\ qpc = "rerank"
    /\ IF engine = "basic"
       THEN unique_results' = BasicRerank(unique_results, RerankTopK)
       ELSE \E predicted \in [1..Len(unique_results) -> RerankValues] :
               unique_results' = RerankSearchResults(unique_results, predicted, RerankTopK)
    /\ qpc' = IF engine = "basic" THEN "answer" ELSE "feedback"
    /\ UNCHANGED <<engine, min_similarity_threshold, chunk_scores, all_results,
                   response, failed_call>>
    /\ UNCHANGED others_q

\* use_reranking = False, or the engine was built without a reranker.
SkipRerank ==
    /\ qpc = "rerank"
    /\ engine # "basic"
    /\ qpc' = "feedback"
    /\ UNCHANGED <<engine, min_similarity_threshold, chunk_scores, all_results,
                   unique_results, response, failed_call>>
    /\ UNCHANGED others_q

\* The cross-encoder fails: the exception leaves query().
RerankFails ==
    /\ qpc = "rerank"
    /\ engine # "basic"
    /\ qpc' = "done"
    /\ failed_call' = "rerank"
    /\ response' = [NoResponse EXCEPT !.kind = "raised"]
    /\ UNCHANGED <<engine, min_similarity_threshold, chunk_scores, all_results,
                   unique_results>>
    /\ UNCHANGED others_q

\* Step 5, "if enable_feedback and self.feedback_service".
ApplyFeedback ==
    /\ qpc = "feedback"
    /\ unique_results' = FeedbackAdjusted(unique_results, chunk_scores)
    /\ qpc' = "answer"
    /\ UNCHANGED <<engine, min_similarity_threshold, chunk_scores, all_results,
                   response, failed_call>>
    /\ UNCHANGED others_q

SkipFeedback ==
    /\ qpc = "feedback"
    /\ qpc' = "answer"
    /\ UNCHANGED <<engine, min_similarity_threshold, chunk_scores, all_results,
                   unique_results, response, failed_call>>
    /\ UNCHANGED others_q

\* sources=unique_results[:self.rerank_top_k]; QueryEngine returns reranked_results.
AnswerResponse(answer_text) ==
    [kind |-> "response", answer |-> answer_text, reason |-> "none",
     sources |-> IF engine = "basic" THEN unique_results
                 ELSE Take(unique_results, RerankTopK)]

\* _generate_answer returns the model's text.
GenerateAnswer ==
    /\ qpc = "answer"
    /\ response' = AnswerResponse("generated")
    /\ qpc' = "done"
    /\ UNCHANGED <<engine, min_similarity_threshold, chunk_scores, all_results,
                   unique_results, failed_call>>
    /\ UNCHANGED others_q

\* The chat completion raises: _generate_answer catches the exception and returns
\* an apology string, which query() wraps like any other answer.
GenerateAnswerFails ==
    /\ qpc = "answer"
    /\ failed_call' = "generate"
    /\ response' = AnswerResponse("error_text")
    /\ qpc' = "done"
    /\ UNCHANGED <<engine, min_similarity_threshold, chunk_scores, all_results,
                   unique_results>>
    /\ UNCHANGED others_q

QNext ==
    \/ Retrieve
    \/ RetrieveFails
    \/ Deduplicate
    \/ CheckEmpty
    \/ SearchDone
    \/ Threshold
    \/ Rerank
    \/ SkipRerank
    \/ RerankFails
    \/ ApplyFeedback
    \/ SkipFeedback
    \/ GenerateAnswer
    \/ GenerateAnswerFails


----------------------------------------------------------------------------
(* Ingestion: DocumentProcessor.process_document with _process_chunks_streaming *)
(* ("streaming"), EnhancedDocumentProcessor.process_document ("enhanced") and  *)
(* DocumentProcessor._process_entities_batch ("batch").                        *)

MaxDocChunks == 3       \* chunks of the ingested document
MaxConcurrent == 2      \* max_concurrent of _process_entities_batch

Paths == {"streaming", "enhanced", "batch"}

IInit ==
    /\ ipath \in Paths
    /\ content_blank \in BOOLEAN
    /\ extract_entities \in BOOLEAN
    /\ n_chunks \in 0..MaxDocChunks
    \* The batch path runs on the stored chunks of a document uploaded earlier
    \* with extract_entities=False (api/documents.py extract_entities_for_document).
    /\ ipath = "batch" => (~content_blank /\ extract_entities /\ n_chunks >= 1)
    \* DocumentProcessor never chunks blank text; for blank text the semantic
    \* chunker returns one chunk holding the text, the fixed-size chunker none.
    /\ (ipath = "streaming" /\ content_blank) => n_chunks = 0
    /\ (ipath = "enhanced" /\ content_blank) => n_chunks <= 1
    /\ ~content_blank => n_chunks >= 1
    /\ ipc = IF ipath = "batch" THEN "batch" ELSE "start"
    /\ generated = IF ipath = "batch" THEN n_chunks ELSE 0
    /\ cur = 0
    /\ doc_created = (ipath = "batch")
    /\ created_chunks = IF ipath = "batch" THEN 1..n_chunks ELSE {}
    /\ embedded = IF ipath = "batch" THEN 1..n_chunks ELSE {}
    /\ extracted = {}
    /\ extraction_failed = {}
    /\ batch_state = IF ipath = "batch" THEN [i \in 1..n_chunks |-> "waiting"] ELSE << >>
    /\ chunk_count = 0
    /\ ingest_result = "pending"
    /\ ingest_failure = "none"

\* An exception leaves the ingestion call.
Raises(kind) ==
    /\ ipc' = "done"
    /\ ingest_result' = "raised"
    /\ ingest_failure' = kind

\* DocumentProcessor.process_document: "if not document.content or not
\* document.content.strip(): raise ValueError".
StreamingRejectsBlank ==
    /\ ipc = "start" /\ ipath = "streaming" /\ content_blank
    /\ Raises("validation")
    /\ UNCHANGED <<ipath, content_blank, extract_entities, n_chunks, generated, cur,
                   doc_created, created_chunks, embedded, extracted, extraction_failed,
                   batch_state, chunk_count>>
    /\ UNCHANGED others_i

\* DocumentProcessor.process_document: repository.create_document(document).
StreamingCreateDocument ==
    /\ ipc = "start" /\ ipath = "streaming" /\ ~content_blank
    /\ doc_created' = TRUE
    /\ ipc' = "generate"
    /\ UNCHANGED <<ipath, content_blank, extract_entities, n_chunks, generated, cur,
                   created_chunks, embedded, extracted, extraction_failed,
                   batch_state, chunk_count, ingest_result, ingest_failure>>
    /\ UNCHANGED others_i

\* EnhancedDocumentProcessor.process_document: the document is saved first; the
\* content is not inspected.
EnhancedCreateDocument ==
    /\ ipc = "start" /\ ipath = "enhanced"
    /\ doc_created' = TRUE
    /\ ipc' = "chunk"
    /\ UNCHANGED <<ipath, content_blank, extract_entities, n_chunks, generated, cur,
                   created_chunks, embedded, extracted, extraction_failed,
                   batch_state, chunk_count, ingest_result, ingest_failure>>
    /\ UNCHANGED others_i

\* repository.create_document raises.
CreateDocumentFails ==
    /\ ipc = "start" /\ ipath \in {"streaming", "enhanced"}
    /\ ~(ipath = "streaming" /\ content_blank)
    /\ Raises("store")
    /\ UNCHANGED <<ipath, content_blank, extract_entities, n_chunks, generated, cur,
                   doc_created, created_chunks, embedded, extracted, extraction_failed,
                   batch_state, chunk_count>>
    /\ UNCHANGED others_i

\* EnhancedDocumentProcessor: "chunks = await self.semantic_chunker...": the whole
\* chunk list is built before the first chunk is processed.
EnhancedChunk ==
    /\ ipc = "chunk"
    /\ generated' = n_chunks
    /\ IF n_chunks = 0
       THEN cur' = cur /\ ipc' = "finish"
       ELSE cur' = 1 /\ ipc' = "save"
    /\ UNCHANGED <<ipath, content_blank, extract_entities, n_chunks,
                   doc_created, created_chunks, embedded, extracted, extraction_failed,
                   batch_state, chunk_count, ingest_result, ingest_failure>>
    /\ UNCHANGED others_i

\* _process_chunks_streaming: the generator _create_chunks_streaming yields the
\* next chunk.
GenerateChunk ==
    /\ ipc = "generate" /\ generated < n_chunks
    /\ generated' = generated + 1
    /\ cur' = generated + 1
    /\ ipc' = "save"
    /\ UNCHANGED <<ipath, content_blank, extract_entities, n_chunks,
                   doc_created, created_chunks, embedded, extracted, extraction_failed,
                   batch_state, chunk_count, ingest_result, ingest_failure>>
    /\ UNCHANGED others_i

\* The generator is exhausted: process_document returns (document, chunk_count).
StreamingFinish ==
    /\ ipc = "generate" /\ generated = n_chunks
    /\ ipc' = "done"
    /\ ingest_result' = "ok"
    /\ UNCHANGED <<ipath, content_blank, extract_entities, n_chunks, generated, cur,
                   doc_created, created_chunks, embedded, extracted, extraction_failed,
                   batch_state, chunk_count, ingest_failure>>
    /\ UNCHANGED others_i

\* repository.create_chunk(chunk)
SaveChunk ==
    /\ ipc = "save"
    /\ created_chunks' = created_chunks \cup {cur}
    /\ ipc' = "embed"
    /\ UNCHANGED <<ipath, content_blank, extract_entities, n_chunks, generated, cur,
                   doc_created, embedded, extracted, extraction_failed,
                   batch_state, chunk_count, ingest_result, ingest_failure>>
    /\ UNCHANGED others_i

\* repository.create_chunk raises: both processors let it propagate.
SaveChunkFails ==
    /\ ipc = "save"
    /\ Raises("store")
    /\ UNCHANGED <<ipath, content_blank, extract_entities, n_chunks, generated, cur,
                   doc_created, created_chunks, embedded, extracted, extraction_failed,
                   batch_state, chunk_count>>
    /\ UNCHANGED others_i

\* The chunk is finished. Streaming: "yield chunk", the caller counts it and the
\* generator is asked for the next chunk. Enhanced: the for loop moves on.
ChunkDone ==
    IF ipath = "streaming"
    THEN /\ ipc' = "generate"
         /\ chunk_count' = chunk_count + 1
         /\ cur' = cur
    ELSE /\ chunk_count' = chunk_count
         /\ IF cur < n_chunks
            THEN cur' = cur + 1 /\ ipc' = "save"
            ELSE cur' = cur /\ ipc' = "finish"

\* generate_embedding + repository.set_chunk_embedding
EmbedChunk ==
    /\ ipc = "embed"
    /\ embedded' = embedded \cup {cur}
    /\ IF extract_entities
       THEN ipc' = "extract" /\ UNCHANGED <<chunk_count, cur>>
       ELSE ChunkDone
    /\ UNCHANGED <<ipath, content_blank, extract_entities, n_chunks, generated,
                   doc_created, created_chunks, extracted, extraction_failed,
                   batch_state, ingest_result, ingest_failure>>
    /\ UNCHANGED others_i

\* The embedding call raises: both processors let it propagate.
EmbedChunkFails ==
    /\ ipc = "embed"
    /\ Raises("embedding")
    /\ UNCHANGED <<ipath, content_blank, extract_entities, n_chunks, generated, cur,
                   doc_created, created_chunks, embedded, extracted, extraction_failed,
                   batch_state, chunk_count>>
    /\ UNCHANGED others_i

\* extract_entities_and_relationships returns; entities and relationships are saved.
ExtractChunk ==
    /\ ipc = "extract"
    /\ extracted' = extracted \cup {cur}
    /\ ChunkDone
    /\ UNCHANGED <<ipath, content_blank, extract_entities, n_chunks, generated,
                   doc_created, created_chunks, embedded, extraction_failed,
                   batch_state, ingest_result, ingest_failure>>
    /\ UNCHANGED others_i

\* extract_entities_and_relationships raises (its retries are exhausted).
\* _process_chunks_streaming: "except Exception ... # Don't raise - continue with
\* other chunks".
StreamingExtractFails ==
    /\ ipc = "extract" /\ ipath = "streaming"
    /\ extraction_failed' = extraction_failed \cup {cur}
    /\ ChunkDone
    /\ UNCHANGED <<ipath, content_blank, extract_entities, n_chunks, generated,
                   doc_created, created_chunks, embedded, extracted,
                   batch_state, ingest_result, ingest_failure>>
    /\ UNCHANGED others_i

\* EnhancedDocumentProcessor.process_document has no handler around the
\* extraction: the exception leaves process_document.
EnhancedExtractFails ==
    /\ ipc = "extract" /\ ipath = "enhanced"
    /\ extraction_failed' = extraction_failed \cup {cur}
    /\ ipc' = "done"
    /\ ingest_result' = "raised"
    /\ UNCHANGED <<ipath, content_blank, extract_entities, n_chunks, generated, cur,
                   doc_created, created_chunks, embedded, extracted,
                   batch_state, chunk_count, ingest_failure>>
    /\ UNCHANGED others_i

\* EnhancedDocumentProcessor: chunk relationships, disambiguation and entity
\* summaries are done; "return document, len(chunks)".
EnhancedFinish ==
    /\ ipc = "finish"
    /\ ipc' = "done"
    /\ ingest_result' = "ok"
    /\ chunk_count' = generated
    /\ UNCHANGED <<ipath, content_blank, extract_entities, n_chunks, generated, cur,
                   doc_created, created_chunks, embedded, extracted, extraction_failed,
                   batch_state, ingest_failure>>
    /\ UNCHANGED others_i

InSection == {i \in DOMAIN batch_state : batch_state[i] = "in_section"}

\* Mutant of BatchAcquire: the section is entered without the semaphore.
BatchAcquireUnbounded(i) ==
    /\ ipc = "batch"
    /\ batch_state[i] = "waiting"
    /\ batch_state' = [batch_state EXCEPT ![i] = "in_section"]
    /\ UNCHANGED <<ipath, content_blank, extract_entities, n_chunks, ipc, generated, cur,
                   doc_created, created_chunks, embedded, extracted, extraction_failed,
                   chunk_count, ingest_result, ingest_failure>>
    /\ UNCHANGED others_i

\* process_chunk_entities: "async with semaphore".
BatchAcquire(i) ==
    /\ ipc = "batch"
    /\ batch_state[i] = "waiting"
    /\ Cardinality(InSection) < MaxConcurrent
    /\ batch_state' = [batch_state EXCEPT ![i] = "in_section"]
    /\ UNCHANGED <<ipath, content_blank, extract_entities, n_chunks, ipc, generated, cur,
                   doc_created, created_chunks, embedded, extracted, extraction_failed,
                   chunk_count, ingest_result, ingest_failure>>
    /\ UNCHANGED others_i

\* process_chunk_entities: extraction and persistence succeed; the semaphore is released.
BatchExtract(i) ==
    /\ ipc = "batch"
    /\ batch_state[i] = "in_section"
    /\ batch_state' = [batch_state EXCEPT ![i] = "done"]
    /\ extracted' = extracted \cup {i}
    /\ UNCHANGED <<ipath, content_blank, extract_entities, n_chunks, ipc, generated, cur,
                   doc_created, created_chunks, embedded, extraction_failed,
                   chunk_count, ingest_result, ingest_failure>>
    /\ UNCHANGED others_i

\* process_chunk_entities: "except Exception ... # Don't raise - continue with
\* other chunks"; the semaphore is released.
BatchExtractFails(i) ==
    /\ ipc = "batch"
    /\ batch_state[i] = "in_section"
    /\ batch_state' = [batch_state EXCEPT ![i] = "failed"]
    /\ extraction_failed' = extraction_failed \cup {i}
    /\ UNCHANGED <<ipath, content_blank, extract_entities, n_chunks, ipc, generated, cur,
                   doc_created, created_chunks, embedded, extracted,
                   chunk_count, ingest_result, ingest_failure>>
    /\ UNCHANGED others_i

\* asyncio.gather returns once every task has ended; the endpoint reports len(chunks).
BatchFinish ==
    /\ ipc = "batch"
    /\ \A i \in DOMAIN batch_state : batch_state[i] \in {"done", "failed"}
    /\ ipc' = "done"
    /\ ingest_result' = "ok"
    /\ chunk_count' = n_chunks
    /\ UNCHANGED <<ipath, content_blank, extract_entities, n_chunks, generated, cur,
                   doc_created, created_chunks, embedded, extracted, extraction_failed,
                   batch_state, ingest_failure>>
    /\ UNCHANGED others_i

INext ==
    \/ StreamingRejectsBlank
    \/ StreamingCreateDocument
    \/ EnhancedCreateDocument
    \/ CreateDocumentFails
    \/ EnhancedChunk
    \/ GenerateChunk
    \/ StreamingFinish
    \/ SaveChunk
    \/ SaveChunkFails
    \/ EmbedChunk
    \/ EmbedChunkFails
    \/ ExtractChunk
    \/ StreamingExtractFails
    \/ EnhancedExtractFails
    \/ EnhancedFinish
    \/ \E i \in DOMAIN batch_state : BatchAcquire(i)
    \/ \E i \in DOMAIN batch_state : BatchExtract(i)
    \/ \E i \in DOMAIN batch_state : BatchExtractFails(i)
    \/ BatchFinish

----------------------------------------------------------------------------
(* Community hierarchy: GraphBuilder.build_hierarchical_communities.           *)
(* A node is <<0, k>> (entity k) or <<L + 1, k>> (the k-th community created   *)
(* at level L). A weight is a rational <<numerator, denominator>>.             *)

MaxEntities == 4        \* entities of the level-0 graph
MaxLevels == 3          \* max_levels of GraphBuilder
MinSizes == {1, 2, 3}   \* configured min_community_size (MIN_COMMUNITY_SIZE)

NoParent == << >>       \* parent_community_id = None

RatAdd(a, b) == <<a[1] * b[2] + b[1] * a[2], a[2] * b[2]>>

RECURSIVE RatSum(_, _)
\* The sum of w[e] over the edges e in E.
RatSum(w, E) ==
    IF E = {} THEN <<0, 1>>
    ELSE LET e == CHOOSE x \in E : TRUE
         IN  RatAdd(w[e], RatSum(w, E \ {e}))

EmptyGraph == [nodes |-> {}, w |-> << >>]

NodeCount(g) == Cardinality(g.nodes)

\* build_entity_graph: the entities that take part in a RELATED edge. Entities
\* 1..n are the nodes; E holds the edges between distinct entities (an entity
\* outside every edge of E is in the graph through a RELATED edge to itself).
EntityGraph(n, E) ==
    [nodes |-> {<<0, k>> : k \in 1..n}, w |-> [e \in E |-> <<1, 1>>]]

EntityEdges(n) ==
    {{<<0, a>>, <<0, b>>} : a, b \in 1..n} \ {{<<0, a>>} : a \in 1..n}

\* detect_communities: what the Louvain library may return is any partition of
\* the nodes. A partition is a labelling f of the nodes; only labellings whose
\* labels appear in increasing order along the nodes are listed, one per partition.
Partitions(nodes) ==
    {f \in [nodes -> 1..Cardinality(nodes)] :
        \A v \in nodes :
            \/ f[v] = 1
            \/ \E u \in nodes : u[2] < v[2] /\ f[u] = f[v] - 1}

\* "Group nodes by community": communities_dict, in order of first appearance.
GroupsOf(f) ==
    LET labels == {f[v] : v \in DOMAIN f}
    IN  [g \in 1..Cardinality(labels) |-> {v \in DOMAIN f : f[v] = g}]

\* "if len(members) >= self.min_community_size or current_level == 0"
Qualifies(members, level, min_size) ==
    Cardinality(members) >= min_size \/ level = 0

\* _generate_community_summary: entity names are found only for entity members.
SummaryOf(members) ==
    IF \E m \in members : m[1] = 0 THEN "named" ELSE "default"

\* Community(level=..., members=..., summary=...): parent_community_id keeps its
\* default None.
Community(id, level, members) ==
    [id |-> id, level |-> level, members |-> members, summary |-> SummaryOf(members),
     parent_community_id |-> NoParent]

\* _calculate_community_similarity before the clamp: connections / total_possible.
Connections(c1, c2, g) ==
    RatSum(g.w, {e \in DOMAIN g.w : \E m1 \in c1.members, m2 \in c2.members : e = {m1, m2}})

TotalPossible(c1, c2) == Cardinality(c1.members) * Cardinality(c2.members)

\* "return similarity if similarity > 0.1 else 0.0"
CommunitySimilarity(c1, c2, g) ==
    LET conn == Connections(c1, c2, g)
        total == TotalPossible(c1, c2)
    IN  IF total # 0 /\ conn[1] * 10 > conn[2] * total
        THEN <<conn[1], conn[2] * total>>
        ELSE <<0, 1>>

\* next_graph: an edge between every pair of level communities of positive weight.
NextGraph(comms, g) ==
    LET linked == {p \in (1..Len(comms)) \X (1..Len(comms)) :
                      p[1] < p[2] /\ CommunitySimilarity(comms[p[1]], comms[p[2]], g)[1] > 0}
        edges == {{comms[p[1]].id, comms[p[2]].id} : p \in linked}
    IN  [nodes |-> UNION edges,
         w |-> [e \in edges |->
                   LET p == CHOOSE q \in linked : e = {comms[q[1]].id, comms[q[2]].id}
                   IN  CommunitySimilarity(comms[p[1]], comms[p[2]], g)]]

HInit ==
    /\ min_community_size \in MinSizes
    /\ \E n \in 0..MaxEntities : \E E \in SUBSET EntityEdges(n) :
           current_graph = EntityGraph(n, E)
    /\ current_level = 0
    /\ groups = << >>
    /\ level_communities = << >>
    /\ all_levels = << >>
    /\ persisted = {}
    /\ hpc = "start"
    /\ hresult = "pending"
    /\ clustered = << >>
    /\ summary_failed = {}

\* "if graph.number_of_nodes() == 0: return all_levels"
NoEntities ==
    /\ hpc = "start" /\ NodeCount(current_graph) = 0
    /\ hpc' = "done"
    /\ hresult' = "ok"
    /\ UNCHANGED <<min_community_size, current_graph, current_level, groups,
                   level_communities, all_levels, persisted, clustered, summary_failed>>
    /\ UNCHANGED others_h

EnterLoop ==
    /\ hpc = "start" /\ NodeCount(current_graph) # 0
    /\ hpc' = "loop"
    /\ UNCHANGED <<min_community_size, current_graph, current_level, groups,
                   level_communities, all_levels, persisted, hresult, clustered,
                   summary_failed>>
    /\ UNCHANGED others_h

LoopCondition == current_level < MaxLevels /\ NodeCount(current_graph) > 1

\* The loop body starts: detect_communities and the grouping by community.
DetectCommunities ==
    /\ hpc = "loop" /\ LoopCondition
    /\ \E f \in Partitions(current_graph.nodes) : groups' = GroupsOf(f)
    /\ level_communities' = << >>
    /\ clustered' = Append(clustered, NodeCount(current_graph))
    /\ hpc' = "create"
    /\ UNCHANGED <<min_community_size, current_graph, current_level, all_levels,
                   persisted, hresult, summary_failed>>
    /\ UNCHANGED others_h

\* The while condition is false: "return all_levels".
LoopExit ==
    /\ hpc = "loop" /\ ~LoopCondition
    /\ hpc' = "done"
    /\ hresult' = "ok"
    /\ UNCHANGED <<min_community_size, current_graph, current_level, groups,
                   level_communities, all_levels, persisted, clustered, summary_failed>>
    /\ UNCHANGED others_h

\* One qualifying group: summary, Community(...), repository.create_community.
CreateCommunity ==
    /\ hpc = "create" /\ groups # << >>
    /\ Qualifies(Head(groups), current_level, min_community_size)
    /\ LET community == Community(<<current_level + 1, Len(level_communities) + 1>>,
                                  current_level, Head(groups))
       IN  /\ level_communities' = Append(level_communities, community)
           /\ persisted' = persisted \cup {community.id}
    /\ groups' = Tail(groups)
    /\ UNCHANGED <<min_community_size, current_graph, current_level, all_levels,
                   hpc, hresult, clustered, summary_failed>>
    /\ UNCHANGED others_h

\* A group below min_community_size above level 0 is passed over.
SkipGroup ==
    /\ hpc = "create" /\ groups # << >>
    /\ ~Qualifies(Head(groups), current_level, min_community_size)
    /\ groups' = Tail(groups)
    /\ UNCHANGED <<min_community_size, current_graph, current_level, level_communities,
                   all_levels, persisted, hpc, hresult, clustered, summary_failed>>
    /\ UNCHANGED others_h

\* The store query of _generate_community_summary raises: nothing catches it, the
\* exception leaves build_hierarchical_communities.
SummaryFails ==
    /\ hpc = "create" /\ groups # << >>
    /\ Qualifies(Head(groups), current_level, min_community_size)
    /\ summary_failed' = Head(groups)
    /\ hpc' = "done"
    /\ hresult' = "raised"
    /\ UNCHANGED <<min_community_size, current_graph, current_level, groups,
                   level_communities, all_levels, persisted, clustered>>
    /\ UNCHANGED others_h

\* All groups visited: all_levels.append; "if len(level_communities) <= 1: break";
\* otherwise the next graph is built and the level counter advances.
FinishLevel ==
    /\ hpc = "create" /\ groups = << >>
    /\ all_levels' = Append(all_levels, level_communities)
    /\ IF Len(level_communities) <= 1
       THEN /\ hpc' = "done"
            /\ hresult' = "ok"
            /\ UNCHANGED <<current_graph, current_level>>
       ELSE /\ current_graph' = NextGraph(level_communities, current_graph)
            /\ current_level' = current_level + 1
            /\ hpc' = "loop"
            /\ UNCHANGED hresult
    /\ UNCHANGED <<min_community_size, groups, level_communities, persisted,
                   clustered, summary_failed>>
    /\ UNCHANGED others_h

HNext ==
    \/ NoEntities
    \/ EnterLoop
    \/ DetectCommunities
    \/ LoopExit
    \/ CreateCommunity
    \/ SkipGroup
    \/ SummaryFails
    \/ FinishLevel

----------------------------------------------------------------------------
(* Hybrid fusion: HybridSearchEngine.reciprocal_rank_fusion and combine_scores. *)
(* A score is a rational <<numerator, denominator>> with a positive denominator. *)

MaxFusionLen == 2       \* length of each input list
DefaultRrfK == 60       \* k: int = 60
VectorWeightTenths == 7 \* vector_weight = 0.7, in tenths
Bm25WeightTenths == 3   \* bm25_weight = 0.3, in tenths

FusionChunkIds == {"c1", "c2", "c3", "c4"}
VectorScoreValues == {0 - 1, 0, 2}   \* similarities returned by the store
Bm25ScoreValues == {1, 2}            \* search_bm25 keeps scores > 0 only
RrfKs == {0, 1, DefaultRrfK}

\* Sequences without a repeated element, of length at most n.
DistinctSeqs(S, n) ==
    {s \in UNION {[1..m -> S] : m \in 0..n} :
        \A i, j \in DOMAIN s : i # j => s[i] # s[j]}

Rat(n, d) == IF d < 0 THEN <<0 - n, 0 - d>> ELSE <<n, d>>

RatGreater(a, b) == a[1] * b[2] > b[1] * a[2]

RatEqual(a, b) == a[1] * b[2] = b[1] * a[2]

\* results.sort(key=lambda x: x[1], reverse=True) on rational scores.
SortByScoreDesc(s) ==
    LET n == Len(s)
        Rank(j) == 1 + Cardinality({i \in 1..n :
                          \/ RatGreater(s[i].score, s[j].score)
                          \/ (RatEqual(s[i].score, s[j].score) /\ i < j)})
    IN  [p \in 1..n |-> s[CHOOSE j \in 1..n : Rank(j) = p]]

\* The keys of a dict built by assignments in order: first assignment fixes the place.
KeysInOrder(ids) ==
    SubSeqAt(ids, {i \in 1..Len(ids) : \A j \in 1..(i - 1) : ids[j] # ids[i]})

\* "if idx < len(self.indexed_chunks): chunk = self.indexed_chunks[idx]" (idx from 0).
Bm25Mapped(bm25, indexed) ==
    SubSeqAt(bm25, {i \in 1..Len(bm25) : bm25[i].idx < Len(indexed)})

\* Mutant of Bm25ChunkIds: the lexical results contribute no chunk.
Bm25ChunkIdsDropped(bm25, indexed) == << >>

Bm25ChunkIds(bm25, indexed) ==
    LET mapped == Bm25Mapped(bm25, indexed)
    IN  [i \in 1..Len(mapped) |-> indexed[mapped[i].idx + 1]]

VectorChunkIds(vec) == [i \in 1..Len(vec) |-> vec[i].chunk_id]

\* Mutant of RrfContribution: "k + rank" instead of its reciprocal.
RrfContributionByRank(ids, c, k) ==
    RatSum([i \in {j \in 1..Len(ids) : ids[j] = c} |-> <<k + i, 1>>],
           {j \in 1..Len(ids) : ids[j] = c})

\* "1 / (k + rank)" summed over the ranks at which c stands in a list of ids.
RrfContribution(ids, c, k) ==
    RatSum([i \in {j \in 1..Len(ids) : ids[j] = c} |-> <<1, k + i>>],
           {j \in 1..Len(ids) : ids[j] = c})

\* The ranks of a BM25 entry count the entries skipped for an index out of range.
Bm25Ranked(bm25, indexed) ==
    [i \in 1..Len(bm25) |->
        IF bm25[i].idx < Len(indexed) THEN indexed[bm25[i].idx + 1] ELSE "none"]

\* HybridSearchEngine.reciprocal_rank_fusion
ReciprocalRankFusion(vec, bm25, indexed, k) ==
    LET vids == VectorChunkIds(vec)
        bids == Bm25Ranked(bm25, indexed)
        keys == KeysInOrder(vids \o Bm25ChunkIds(bm25, indexed))
        scored == [i \in 1..Len(keys) |->
                      [chunk_id |-> keys[i],
                       score |-> RatAdd(RrfContribution(vids, keys[i], k),
                                        RrfContribution(bids, keys[i], k))]]
    IN  SortByScoreDesc(scored)

\* A dict comprehension: the last pair of a key gives its value.
LastScore(ids, scores, c) ==
    scores[CHOOSE i \in 1..Len(ids) : ids[i] = c /\ \A j \in (i + 1)..Len(ids) : ids[j] # c]

MaxRaw(S) == CHOOSE m \in S : \A x \in S : x <= m

\* "{k: v / max_vector ...}" when normalize and the dict is not empty, else v.
Normalized(raw, all_raw, norm) ==
    IF norm THEN Rat(raw, MaxRaw(all_raw)) ELSE <<raw, 1>>

\* The division raises ZeroDivisionError when the maximum of a non-empty dict is 0.
NormalizeRaises(all_raw, norm) ==
    norm /\ all_raw # {} /\ MaxRaw(all_raw) = 0

\* HybridSearchEngine.combine_scores (the set of ids is walked in the order of the
\* ids' hashes, taken here as vector keys first).
CombineScores(vec, bm25, indexed, norm) ==
    LET vids == VectorChunkIds(vec)
        mapped == Bm25Mapped(bm25, indexed)
        bids == Bm25ChunkIds(bm25, indexed)
        vraw(c) == LastScore(vids, [i \in 1..Len(vec) |-> vec[i].score], c)
        braw(c) == LastScore(bids, [i \in 1..Len(mapped) |-> mapped[i].score], c)
        vall == {vec[i].score : i \in 1..Len(vec)}
        ball == {mapped[i].score : i \in 1..Len(mapped)}
        InSeq(c, ids) == \E i \in 1..Len(ids) : ids[i] = c
        v(c) == IF InSeq(c, vids) THEN Normalized(vraw(c), vall, norm) ELSE <<0, 1>>
        b(c) == IF InSeq(c, bids) THEN Normalized(braw(c), ball, norm) ELSE <<0, 1>>
        keys == KeysInOrder(vids \o bids)
        scored == [i \in 1..Len(keys) |->
                      [chunk_id |-> keys[i],
                       score |-> RatAdd(<<VectorWeightTenths * v(keys[i])[1], 10 * v(keys[i])[2]>>,
                                        <<Bm25WeightTenths * b(keys[i])[1], 10 * b(keys[i])[2]>>),
                       vector |-> v(keys[i]),
                       bm25 |-> b(keys[i])]]
    IN  SortByScoreDesc(scored)

\* Score lists as a ranked search returns them: in non-increasing order.
RankedScores(n, values) ==
    {scores \in [1..n -> values] : \A i \in 1..(n - 1) : scores[i] >= scores[i + 1]}

\* The inputs of one fusion call, as _hybrid_search prepares them: the rows of
\* search_similar_chunks (best first, a chunk at most once), the chunks of the
\* lexical search as indexed_chunks, and bm25_results = [(i, score) for i in
\* range(len(indexed_chunks))].
FInit ==
    /\ \E ids \in DistinctSeqs(FusionChunkIds, MaxFusionLen) :
       \E scores \in RankedScores(Len(ids), VectorScoreValues) :
           vector_results = [i \in 1..Len(ids) |-> [chunk_id |-> ids[i], score |-> scores[i]]]
    /\ indexed_chunks \in DistinctSeqs(FusionChunkIds, MaxFusionLen)
    /\ \E scores \in RankedScores(Len(indexed_chunks), Bm25ScoreValues) :
           bm25_results = [i \in 1..Len(indexed_chunks) |-> [idx |-> i - 1, score |-> scores[i]]]
    /\ fusion = "none"
    /\ rrf_k = 0
    /\ normalize = FALSE
    /\ fused = << >>
    /\ fusion_raised = FALSE

CallRrf ==
    /\ fusion = "none"
    /\ \E k \in RrfKs :
           /\ rrf_k' = k
           /\ fused' = ReciprocalRankFusion(vector_results, bm25_results, indexed_chunks, k)
    /\ fusion' = "rrf"
    /\ UNCHANGED <<vector_results, bm25_results, indexed_chunks, normalize, fusion_raised>>
    /\ UNCHANGED others_f

CombineRaises(norm) ==
    \/ NormalizeRaises({vector_results[i].score : i \in 1..Len(vector_results)}, norm)
    \/ LET mapped == Bm25Mapped(bm25_results, indexed_chunks)
       IN  NormalizeRaises({mapped[i].score : i \in 1..Len(mapped)}, norm)

CallCombineScores ==
    /\ fusion = "none"
    /\ \E norm \in BOOLEAN :
           /\ normalize' = norm
           /\ ~CombineRaises(norm)
           /\ fused' = CombineScores(vector_results, bm25_results, indexed_chunks, norm)
    /\ fusion' = "combine"
    /\ UNCHANGED <<vector_results, bm25_results, indexed_chunks, rrf_k, fusion_raised>>
    /\ UNCHANGED others_f

\* combine_scores leaves with ZeroDivisionError: nothing is returned.
CombineScoresRaises ==
    /\ fusion = "none"
    /\ CombineRaises(TRUE)
    /\ normalize' = TRUE
    /\ fusion' = "combine"
    /\ fusion_raised' = TRUE
    /\ UNCHANGED <<vector_results, bm25_results, indexed_chunks, rrf_k, fused>>
    /\ UNCHANGED others_f

FNext ==
    \/ CallRrf
    \/ CallCombineScores
    \/ CombineScoresRaises

----------------------------------------------------------------------------
(* Chunkers. Character positions count from 0 as in the code: the character at *)
(* position p of the text is text[p + 1].                                      *)

MaxTextLen == 4         \* characters of the document text
MaxChunkSize == 3       \* largest configured chunk_size
MaxChunkOverlap == 2    \* largest configured chunk_overlap
MaxSentences == 3       \* sentences of the text given to the semantic chunker
MaxSentenceLen == 2     \* characters of one sentence

\* A letter, whitespace, and two sentence-ending marks.
Characters == {"a", " ", ".", "!"}

\* "for delimiter in [". ", ".\n", "! ", "!\n", "? ", "?\n"]": a mark followed by
\* whitespace, in this order of marks.
Delimiters == <<".", "!">>

Min(a, b) == IF a < b THEN a ELSE b

Max(a, b) == IF a > b THEN a ELSE b

\* The positions i with text[i:i+2] == delimiter and start <= i, i + 2 <= end.
Found(t, mark, s, e) ==
    {i \in s..(e - 2) : t[i + 1] = mark /\ t[i + 2] = " "}

\* text.rfind(delimiter, start, end)
Rfind(t, mark, s, e) ==
    IF Found(t, mark, s, e) = {} THEN 0 - 1
    ELSE CHOOSE i \in Found(t, mark, s, e) : \A j \in Found(t, mark, s, e) : j <= i

\* "Try to break at sentence boundary": the first delimiter of the list that
\* occurs decides.
BreakAtSentence(t, s, e) ==
    LET hits == {d \in 1..Len(Delimiters) : Rfind(t, Delimiters[d], s, e) # 0 - 1}
    IN  IF hits = {} THEN e
        ELSE LET d == CHOOSE x \in hits : \A y \in hits : x <= y
             IN  Rfind(t, Delimiters[d], s, e) + 1

\* The end of the chunk that starts at s.
ChunkEnd(t, s, size) ==
    LET e == Min(s + size, Len(t))
    IN  IF e < Len(t) THEN BreakAtSentence(t, s, e) ELSE e

\* "chunk_text = text[start:end].strip()" followed by "if chunk_text".
StrippedNonEmpty(t, s, e) == \E p \in s..(e - 1) : t[p + 1] # " "

\* Mutant of NextStart: the next start is not pushed past the current one.
NextStartStalls(s, e, len, overlap) ==
    IF e < len THEN Max(s, e - overlap) ELSE e

\* "start = max(start + 1, end - self.chunk_overlap)" or "start = end".
NextStart(s, e, len, overlap) ==
    IF e < len THEN Max(s + 1, e - overlap) ELSE e

\* Mutant of Chunk: a chunk is numbered by the position where it starts.
ChunkNumberedByStart(index, s, e) == [chunk_index |-> s, start_char |-> s, end_char |-> e]

Chunk(index, s, e) == [chunk_index |-> index, start_char |-> s, end_char |-> e]

RECURSIVE SumLen(_, _, _)
\* The sum of lens[a .. b].
SumLen(lens, a, b) == IF a > b THEN 0 ELSE lens[a] + SumLen(lens, a + 1, b)

RECURSIVE SplitIndices(_, _, _, _, _, _)
\* The loop over similarities from i on (i counts from 0), with the splits found
\* so far and current_size; sentence i of the code is lens[i + 1].
SplitIndices(lens, low, i, splits, size, limits) ==
    IF i >= Len(low) THEN splits
    ELSE LET grown == size + lens[i + 2]
         IN  IF (low[i + 1] /\ grown >= limits[1]) \/ grown >= limits[2]
             THEN SplitIndices(lens, low, i + 1, Append(splits, i + 1), 0, limits)
             ELSE SplitIndices(lens, low, i + 1, splits, grown, limits)

\* split_indices, closed with len(sentences).
ClosedSplits(lens, low, limits) ==
    LET splits == SplitIndices(lens, low, 0, <<0>>, lens[1], limits)
    IN  IF splits[Len(splits)] # Len(lens) THEN Append(splits, Len(lens)) ELSE splits

\* len(" ".join(sentences[a:b])), a and b counted from 0.
JoinedLen(lens, a, b) == SumLen(lens, a + 1, b) + (b - a - 1)

RECURSIVE SemanticChunks(_, _, _, _)
\* "for idx in range(len(split_indices) - 1)" from idx on, at char_position pos.
SemanticChunks(lens, splits, idx, pos) ==
    IF idx >= Len(splits) - 1 THEN << >>
    ELSE LET len == JoinedLen(lens, splits[idx + 1], splits[idx + 2])
         IN  <<Chunk(idx, pos, pos + len)>>
                 \o SemanticChunks(lens, splits, idx + 1, pos + len + 1)

\* SemanticChunker.chunk_by_semantic_similarity. With at most one sentence the
\* text itself is the chunk (the text is taken to be its sentences, joined).
ChunkBySemanticSimilarity(lens, low, limits) ==
    IF Len(lens) <= 1 THEN <<Chunk(0, 0, SumLen(lens, 1, Len(lens)))>>
    ELSE SemanticChunks(lens, ClosedSplits(lens, low, limits), 0, 0)

CInit ==
    /\ chunker \in {"fixed", "semantic"}
    /\ IF chunker = "fixed"
       THEN /\ text \in UNION {[1..n -> Characters] : n \in 0..MaxTextLen}
            /\ chunk_size \in 1..MaxChunkSize
            /\ chunk_overlap \in 0..MaxChunkOverlap
            /\ sentences = << >>
            /\ low_similarity = << >>
            /\ min_chunk_size = 1
            /\ max_chunk_size = 1
       ELSE /\ text = << >>
            /\ chunk_size = 1
            /\ chunk_overlap = 0
            /\ sentences \in UNION {[1..n -> 1..MaxSentenceLen] : n \in 0..MaxSentences}
            /\ low_similarity \in [1..(Len(sentences) - 1) -> BOOLEAN]
            /\ min_chunk_size \in 1..(MaxSentenceLen + 1)
            /\ max_chunk_size \in min_chunk_size..(2 * MaxSentenceLen + 1)
    /\ start = 0
    /\ chunk_index = 0
    /\ chunks = << >>
    /\ cpc = "run"

\* One iteration of "while start < text_len" that yields a chunk.
YieldChunk ==
    /\ cpc = "run" /\ chunker = "fixed" /\ start < Len(text)
    /\ LET end == ChunkEnd(text, start, chunk_size)
       IN  /\ StrippedNonEmpty(text, start, end)
           /\ chunks' = Append(chunks, Chunk(chunk_index, start, end))
           /\ chunk_index' = chunk_index + 1
           /\ start' = NextStart(start, end, Len(text), chunk_overlap)
    /\ UNCHANGED <<chunker, text, chunk_size, chunk_overlap, sentences, low_similarity,
                   min_chunk_size, max_chunk_size, cpc>>
    /\ UNCHANGED others_c

\* One iteration whose chunk_text is empty after strip(): nothing is yielded.
SkipEmptyChunk ==
    /\ cpc = "run" /\ chunker = "fixed" /\ start < Len(text)
    /\ LET end == ChunkEnd(text, start, chunk_size)
       IN  /\ ~StrippedNonEmpty(text, start, end)
           /\ start' = NextStart(start, end, Len(text), chunk_overlap)
    /\ UNCHANGED <<chunker, text, chunk_size, chunk_overlap, chunk_index, sentences,
                   low_similarity, min_chunk_size, max_chunk_size, chunks, cpc>>
    /\ UNCHANGED others_c

\* "while start < text_len" is false: the generator is exhausted.
ChunksExhausted ==
    /\ cpc = "run" /\ chunker = "fixed" /\ start >= Len(text)
    /\ cpc' = "done"
    /\ UNCHANGED <<chunker, text, chunk_size, chunk_overlap, start, chunk_index, sentences,
                   low_similarity, min_chunk_size, max_chunk_size, chunks>>
    /\ UNCHANGED others_c

\* One call of chunk_by_semantic_similarity returns the whole list.
SemanticChunk ==
    /\ cpc = "run" /\ chunker = "semantic"
    /\ chunks' = ChunkBySemanticSimilarity(sentences, low_similarity,
                                           <<min_chunk_size, max_chunk_size>>)
    /\ cpc' = "done"
    /\ UNCHANGED <<chunker, text, chunk_size, chunk_overlap, start, chunk_index, sentences,
                   low_similarity, min_chunk_size, max_chunk_size>>
    /\ UNCHANGED others_c

CNext ==
    \/ YieldChunk
    \/ SkipEmptyChunk
    \/ ChunksExhausted
    \/ SemanticChunk

----------------------------------------------------------------------------
(* Feedback recording: FeedbackService.record_feedback. An accumulator is kept *)
(* in units of learning_rate / 5 (learning_rate > 0), so that                  *)
(* "learning_rate * rating / 5.0" is the integer rating.                       *)

MaxFeedbackEvents == 3  \* record_feedback calls in one run
MaxRating == 5          \* rating: 1-5 star rating

\* rating: 0 stands for None.
Ratings == 0..MaxRating

NoFeedback == [chunk_id |-> "none", helpful |-> FALSE, rating |-> 0]

\* Mutant of ScoreDelta: the sign of the delta is reversed.
ScoreDeltaReversed(helpful, rating) ==
    IF helpful
    THEN 0 - (IF rating = 0 THEN MaxRating ELSE rating)
    ELSE IF rating = 0 THEN MaxRating ELSE MaxRating - rating

\* score_delta of record_feedback.
ScoreDelta(helpful, rating) ==
    IF helpful
    THEN IF rating = 0 THEN MaxRating ELSE rating
    ELSE 0 - (IF rating = 0 THEN MaxRating ELSE MaxRating - rating)

\* "self.chunk_scores[chunk_id] = current_score + score_delta"
WithFeedback(scores, c, helpful, rating) ==
    [d \in DOMAIN scores \cup {c} |->
        IF d = c THEN GetChunkFeedbackScore(scores, c) + ScoreDelta(helpful, rating)
        ELSE scores[d]]

RInit ==
    /\ feedback_entry = NoFeedback
    /\ feedback_count = 0
    /\ feedback_file = << >>

RecordFeedback ==
    /\ feedback_count < MaxFeedbackEvents
    /\ \E c \in ChunkIds, helpful \in BOOLEAN, rating \in Ratings :
           /\ feedback_entry' = [chunk_id |-> c, helpful |-> helpful, rating |-> rating]
           /\ chunk_scores' = WithFeedback(chunk_scores, c, helpful, rating)
    /\ feedback_count' = feedback_count + 1
    /\ feedback_file' = chunk_scores'
    /\ UNCHANGED others_r

RNext ==
    \/ RecordFeedback

----------------------------------------------------------------------------
(* Strategy resolution: AdvancedQueryEngine._retrieve and _select_strategy.    *)
(* A string is the sequence of its characters.                                 *)

MaxQueryWords == 3      \* words of the query text

Vocabulary == {"who", "Who", "whole", "what", "is", "about", "between", "link", "overview", "tell", "me", "plants"}

Strategies == {"vector_only", "hybrid", "entity_aware", "graph_traversal",
               "semantic_relationship", "community_based", "adaptive"}

WordChars(w) ==
    CASE w = "who" -> <<"w", "h", "o">>
    [] w = "Who" -> <<"W", "h", "o">>
    [] w = "whole" -> <<"w", "h", "o", "l", "e">>
    [] w = "what" -> <<"w", "h", "a", "t">>
    [] w = "is" -> <<"i", "s">>
    [] w = "about" -> <<"a", "b", "o", "u", "t">>
    [] w = "between" -> <<"b", "e", "t", "w", "e", "e", "n">>
    [] w = "link" -> <<"l", "i", "n", "k">>
    [] w = "overview" -> <<"o", "v", "e", "r", "v", "i", "e", "w">>
    [] w = "tell" -> <<"t", "e", "l", "l">>
    [] w = "me" -> <<"m", "e">>
    [] w = "plants" -> <<"p", "l", "a", "n", "t", "s">>

RECURSIVE JoinWords(_)
\* The query text: its words separated by single spaces.
JoinWords(ws) ==
    IF Len(ws) = 0 THEN << >>
    ELSE IF Len(ws) = 1 THEN WordChars(ws[1])
    ELSE WordChars(ws[1]) \o <<" ">> \o JoinWords(Tail(ws))

\* str.lower() on the letters of the vocabulary.
Lower(s) == [i \in 1..Len(s) |-> IF s[i] = "W" THEN "w" ELSE s[i]]

\* "word in query_lower": substring test.
Contains(hay, needle) ==
    \E i \in 0..(Len(hay) - Len(needle)) :
        \A j \in 1..Len(needle) : hay[i + j] = needle[j]

\* ['who', 'what is', 'define', 'about']
EntityWords ==
    <<<<"w", "h", "o">>,
      <<"w", "h", "a", "t", " ", "i", "s">>,
      <<"d", "e", "f", "i", "n", "e">>,
      <<"a", "b", "o", "u", "t">>>>

\* ['relate', 'connect', 'between', 'link']
RelationWords ==
    <<<<"r", "e", "l", "a", "t", "e">>,
      <<"c", "o", "n", "n", "e", "c", "t">>,
      <<"b", "e", "t", "w", "e", "e", "n">>,
      <<"l", "i", "n", "k">>>>

\* ['overview', 'summary', 'tell me about']
BroadWords ==
    <<<<"o", "v", "e", "r", "v", "i", "e", "w">>,
      <<"s", "u", "m", "m", "a", "r", "y">>,
      <<"t", "e", "l", "l", " ", "m", "e", " ", "a", "b", "o", "u", "t">>>>

\* any(word in query_lower for word in words)
AnyIn(words, query_lower) ==
    \E k \in 1..Len(words) : Contains(query_lower, words[k])

\* AdvancedQueryEngine._select_strategy
SelectStrategy(q) ==
    LET query_lower == Lower(q)
    IN  IF AnyIn(EntityWords, query_lower) THEN "entity_aware"
        ELSE IF AnyIn(RelationWords, query_lower) THEN "graph_traversal"
        ELSE IF AnyIn(BroadWords, query_lower) THEN "community_based"
        ELSE "hybrid"

SInit ==
    /\ query_words \in UNION {[1..n -> Vocabulary] : n \in 0..MaxQueryWords}
    /\ strategy \in Strategies
    /\ resolved = "none"

\* _retrieve: "if strategy == RetrievalStrategy.ADAPTIVE: strategy = await
\* self._select_strategy(query)".
ResolveAdaptive ==
    /\ resolved = "none" /\ strategy = "adaptive"
    /\ resolved' = SelectStrategy(JoinWords(query_words))
    /\ UNCHANGED <<query_words, strategy>>
    /\ UNCHANGED others_s

\* Any other strategy is run as given.
ResolveGiven ==
    /\ resolved = "none" /\ strategy # "adaptive"
    /\ resolved' = strategy
    /\ UNCHANGED <<query_words, strategy>>
    /\ UNCHANGED others_s

SNext ==
    \/ ResolveAdaptive
    \/ ResolveGiven

----------------------------------------------------------------------------
(* Retried leaf calls: EmbeddingService.generate_embedding,                    *)
(* EmbeddingService.generate_embeddings and                                    *)
(* EntityExtractor.extract_entities_and_relationships, each decorated with     *)
(* @retry(stop=stop_after_attempt(3),                                          *)
(*        wait=wait_exponential(multiplier=1, min=2, max=10)).                 *)

MaxResponses == 2       \* distinct values the remote service may answer with

MaxAttempts == 3        \* stop_after_attempt(3)
WaitMultiplier == 1     \* wait_exponential(multiplier=1, ...)
WaitMin == 2            \* wait_exponential(..., min=2, ...)
WaitMax == 10           \* wait_exponential(..., max=10)

LeafCalls == {"generate_embedding", "generate_embeddings",
              "extract_entities_and_relationships"}

\* The embedding cache: absent, holding the text, not holding it, or failing.
CacheStates == {"disabled", "hit", "miss", "broken"}

Responses == 1..MaxResponses

\* What an attempt may raise: the API call fails, anything else fails, or (for
\* the extractor) the answer is not JSON.
Errors(method) ==
    IF method = "extract_entities_and_relationships"
    THEN {"APIError", "Exception", "JSONDecodeError"}
    ELSE {"APIError", "Exception"}

RECURSIVE Pow2(_)
Pow2(n) == IF n = 0 THEN 1 ELSE 2 * Pow2(n - 1)

\* wait_exponential: multiplier * 2^(attempt - 1), clamped to [min, max].
WaitExponential(attempt) ==
    Max(WaitMin, Min(WaitMultiplier * Pow2(attempt - 1), WaitMax))

\* Mutant of StopAfterAttempt: one more attempt is allowed.
StopAfterOneMore(attempt) == attempt >= MaxAttempts + 1

\* stop_after_attempt(3)
StopAfterAttempt(attempt) == attempt >= MaxAttempts

TInit ==
    /\ leaf_call \in LeafCalls
    /\ cache \in (IF leaf_call = "generate_embedding" THEN CacheStates ELSE {"disabled"})
    /\ attempt_number = 0
    /\ outcomes = << >>
    /\ leaf_result = <<"pending">>
    /\ slept = 0
    /\ tpc = "calling"

\* generate_embedding: "cached = await self.embedding_cache.get_embedding(text);
\* if cached: return cached".  The attempt returns without calling the service.
AttemptCacheHit ==
    /\ tpc = "calling" /\ leaf_call = "generate_embedding" /\ cache = "hit"
    /\ \E v \in Responses :
          /\ outcomes' = Append(outcomes, <<"ok", v>>)
          /\ leaf_result' = <<"value", v>>
    /\ attempt_number' = attempt_number + 1
    /\ tpc' = "returned"
    /\ UNCHANGED <<leaf_call, cache, slept>>
    /\ UNCHANGED others_t

\* The body runs to its return statement: the service answered (a failing cache
\* lookup or cache write is logged and the attempt goes on).
AttemptSucceeds ==
    /\ tpc = "calling" /\ cache # "hit"
    /\ \E v \in Responses :
          /\ outcomes' = Append(outcomes, <<"ok", v>>)
          /\ leaf_result' = <<"value", v>>
    /\ attempt_number' = attempt_number + 1
    /\ tpc' = "returned"
    /\ UNCHANGED <<leaf_call, cache, slept>>
    /\ UNCHANGED others_t

\* The body raises: both except clauses log and re-raise.  The retry wrapper
\* stops with RetryError once stop_after_attempt holds, and sleeps otherwise.
AttemptFails ==
    /\ tpc = "calling" /\ cache # "hit"
    /\ \E e \in Errors(leaf_call) :
          /\ outcomes' = Append(outcomes, <<"raise", e>>)
          /\ IF StopAfterAttempt(attempt_number + 1)
             THEN /\ leaf_result' = <<"RetryError", e>>
                  /\ tpc' = "raised"
             ELSE /\ leaf_result' = leaf_result
                  /\ tpc' = "waiting"
    /\ attempt_number' = attempt_number + 1
    /\ UNCHANGED <<leaf_call, cache, slept>>
    /\ UNCHANGED others_t

\* The wrapper sleeps wait_exponential seconds and calls the body again.
WaitAndRetry ==
    /\ tpc = "waiting"
    /\ slept' = slept + WaitExponential(attempt_number)
    /\ tpc' = "calling"
    /\ UNCHANGED <<leaf_call, cache, attempt_number, outcomes, leaf_result>>
    /\ UNCHANGED others_t

TNext ==
    \/ AttemptCacheHit
    \/ AttemptSucceeds
    \/ AttemptFails
    \/ WaitAndRetry

----------------------------------------------------------------------------
(* Cache: CacheService (Redis first, in-memory dict as fallback) and           *)
(* QueryCache on top of it.                                                    *)

MaxCacheValue == 2      \* distinct values a caller stores
MaxMemoryItems == 2     \* largest max_memory_items of a CacheService
MaxGets == 2            \* get calls counted by cache_hits + cache_misses

\* Keys as the callers build them: prefix + hash_key(...).
CacheKeys == {<<"query:", 1>>, <<"emb:", 1>>}

QueryKeys == {k \in CacheKeys : k[1] = "query:"}

CacheValues == 1..MaxCacheValue

\* None
NoValue == 0

\* What redis_client.get answers for a key Redis does not hold.
RedisNil == <<"nil">>

RedisModes == {"not_configured", "healthy", "down", "flaky"}

\* json.dumps(value) / json.loads(value)
Serialize(v) == <<"json", v>>
Deserialize(s) == s[2]

\* "if self.redis_client": the client exists whenever a URL is configured;
\* from_url does not connect.
HasRedisClient == redis_mode # "not_configured"

\* Whether one Redis call may succeed (ok = TRUE) or raise (ok = FALSE).
RedisAnswers(ok) ==
    CASE redis_mode = "healthy" -> ok
      [] redis_mode = "down" -> ~ok
      [] redis_mode = "flaky" -> TRUE
      [] OTHER -> ~ok

MemHas(mem, k) == \E i \in 1..Len(mem) : mem[i][1] = k

MemGet(mem, k) == mem[CHOOSE i \in 1..Len(mem) : mem[i][1] = k][2]

\* self.memory_cache[key] = value: a present key keeps its place.
MemPut(mem, k, v) ==
    IF MemHas(mem, k)
    THEN [i \in 1..Len(mem) |-> IF mem[i][1] = k THEN <<k, v>> ELSE mem[i]]
    ELSE Append(mem, <<k, v>>)

\* self.memory_cache.pop(key, None)
MemPop(mem, k) == SelectSeq(mem, LAMBDA e : e[1] # k)

\* CacheService.get, as a value: Redis first, then the dict, then None.
GetValue(k, ok) ==
    IF HasRedisClient /\ ok /\ redis_store[k] # RedisNil
    THEN Deserialize(redis_store[k])
    ELSE IF MemHas(memory_cache, k) THEN MemGet(memory_cache, k)
    ELSE NoValue

KInit ==
    /\ redis_mode \in RedisModes
    /\ redis_store = [k \in CacheKeys |-> RedisNil]
    /\ memory_cache = << >>
    /\ max_memory_items \in 1..MaxMemoryItems
    /\ cache_hits = 0
    /\ cache_misses = 0
    /\ last_op = <<"init">>
    /\ expected = [k \in CacheKeys |-> NoValue]
    /\ stale = {}

\* CacheService.get
CacheGet(k, ok) ==
    /\ RedisAnswers(ok)
    /\ cache_hits + cache_misses < MaxGets
    /\ last_op' = <<"get", k, GetValue(k, ok)>>
    /\ IF GetValue(k, ok) # NoValue
       THEN cache_hits' = cache_hits + 1 /\ cache_misses' = cache_misses
       ELSE cache_misses' = cache_misses + 1 /\ cache_hits' = cache_hits
    /\ UNCHANGED <<redis_mode, redis_store, memory_cache, max_memory_items, expected, stale>>
    /\ UNCHANGED others_k

\* CacheService.set: "setex; return", and on a Redis error the dict, after
\* popping its first item when it is full.
CacheSet(k, v, ok) ==
    /\ RedisAnswers(ok)
    /\ IF HasRedisClient /\ ok
       THEN /\ redis_store' = [redis_store EXCEPT ![k] = Serialize(v)]
            /\ memory_cache' = memory_cache
            /\ expected' = [expected EXCEPT ![k] = v]
       ELSE LET full == Len(memory_cache) >= max_memory_items
                evicted == IF full THEN {memory_cache[1][1]} ELSE {}
                kept == IF full THEN Tail(memory_cache) ELSE memory_cache
            IN  /\ memory_cache' = MemPut(kept, k, v)
                /\ redis_store' = redis_store
                /\ expected' = [x \in CacheKeys |->
                                   IF x = k THEN v
                                   ELSE IF x \in evicted THEN NoValue
                                   ELSE expected[x]]
    /\ stale' = stale \ {k}
    /\ last_op' = <<"set", k, v>>
    /\ UNCHANGED <<redis_mode, max_memory_items, cache_hits, cache_misses>>
    /\ UNCHANGED others_k

\* CacheService.delete
CacheDelete(k, ok) ==
    /\ RedisAnswers(ok)
    /\ redis_store' = IF HasRedisClient /\ ok
                      THEN [redis_store EXCEPT ![k] = RedisNil]
                      ELSE redis_store
    /\ memory_cache' = MemPop(memory_cache, k)
    /\ expected' = [expected EXCEPT ![k] = NoValue]
    /\ last_op' = <<"delete", k>>
    /\ UNCHANGED <<redis_mode, max_memory_items, cache_hits, cache_misses, stale>>
    /\ UNCHANGED others_k

\* CacheService.clear
CacheClear(ok) ==
    /\ RedisAnswers(ok)
    /\ redis_store' = IF HasRedisClient /\ ok
                      THEN [k \in CacheKeys |-> RedisNil]
                      ELSE redis_store
    /\ memory_cache' = << >>
    /\ expected' = [k \in CacheKeys |-> NoValue]
    /\ last_op' = <<"clear">>
    /\ UNCHANGED <<redis_mode, max_memory_items, cache_hits, cache_misses, stale>>
    /\ UNCHANGED others_k

\* Redis drops a key whose ttl (setex) has run out.
RedisExpire(k) ==
    /\ redis_store[k] # RedisNil
    /\ redis_store' = [redis_store EXCEPT ![k] = RedisNil]
    /\ expected' = [expected EXCEPT ![k] = NoValue]
    /\ last_op' = <<"expire", k>>
    /\ UNCHANGED <<redis_mode, memory_cache, max_memory_items, cache_hits, cache_misses, stale>>
    /\ UNCHANGED others_k

\* QueryCache.invalidate_all: logs "Query cache invalidated" and returns.
InvalidateAll ==
    /\ stale' = {k \in QueryKeys : redis_store[k] # RedisNil \/ MemHas(memory_cache, k)}
    /\ last_op' = <<"invalidate_all">>
    /\ UNCHANGED <<redis_mode, redis_store, memory_cache, max_memory_items,
                   cache_hits, cache_misses, expected>>
    /\ UNCHANGED others_k

KNext ==
    \/ \E k \in CacheKeys, ok \in BOOLEAN : CacheGet(k, ok)
    \/ \E k \in CacheKeys, v \in CacheValues, ok \in BOOLEAN : CacheSet(k, v, ok)
    \/ \E k \in CacheKeys, ok \in BOOLEAN : CacheDelete(k, ok)
    \/ \E ok \in BOOLEAN : CacheClear(ok)
    \/ \E k \in CacheKeys : RedisExpire(k)
    \/ InvalidateAll

----------------------------------------------------------------------------
(* Query fan-out: steps 1 to 3 of AdvancedQueryEngine.query and                *)
(* UltraAdvancedQueryEngine.query, with HyDEService.                           *)
(* A Python value is a pair of its type and its content, so that a str and a   *)
(* list holding that str are different values, as they are for "!=".           *)

MaxSubQueries == 2      \* sub-queries a decomposition returns
MaxReformulations == 1  \* reformulations added after the original query
MaxCallResults == 1     \* results one _retrieve call returns

OriginalQuery == "q"

\* Texts a decomposition may give its sub-queries (the fallback is the original).
SubQueryTexts == {"q", "s1", "s2"}

ReformulationTexts == {"v1"}

\* The passage the language model writes for HyDE.
HydePassage == "h"

HydeStates == {"none", "disabled", "fails", "generates"}

Str(t) == <<"str", t>>

ListOf(t) == <<"list", <<t>>>>

\* HyDEService.generate_hypothetical_document: "return [query]" when disabled
\* or on an exception, "documents = [content.strip()]" otherwise.
GenerateHypotheticalDocument(query) ==
    IF hyde \in {"disabled", "fails"} THEN ListOf(query) ELSE ListOf(HydePassage)

\* HyDEService.generate_hypothetical_answer: "return docs[0] if docs else query".
GenerateHypotheticalAnswer(query) ==
    Str(GenerateHypotheticalDocument(query)[2][1])

\* The value each engine names hyde_doc.
HydeDoc(query_variant) ==
    IF fan_engine = "advanced"
    THEN GenerateHypotheticalDocument(query_variant)
    ELSE GenerateHypotheticalAnswer(query_variant)

\* "search_query = query_variant; if self.hyde_service: hyde_doc = ...;
\*  if hyde_doc != query_variant: search_query = hyde_doc".
SearchQuery(query_variant) ==
    IF hyde # "none" /\ HydeDoc(query_variant) # Str(query_variant)
    THEN HydeDoc(query_variant)
    ELSE Str(query_variant)

OInit ==
    /\ fan_engine \in {"advanced", "ultra"}
    /\ hyde \in HydeStates
    \* [SubQuery(query=query)], or what decompose_query returned.
    /\ subqueries \in UNION {[1..n -> SubQueryTexts] : n \in 0..MaxSubQueries}
    \* [query] + reformulations
    /\ query_variants \in
          {<<OriginalQuery>> \o r :
              r \in UNION {[1..n -> ReformulationTexts] : n \in 0..MaxReformulations}}
    /\ si = 1
    /\ vi = 1
    /\ calls = << >>
    /\ fan_results = << >>
    /\ opc = "loop"

\* The loops move to the next (subquery, query_variant) pair.
Advance ==
    IF vi < Len(query_variants)
    THEN vi' = vi + 1 /\ si' = si
    ELSE vi' = 1 /\ si' = si + 1

\* One pass of the inner loop: _retrieve(search_query, ...) returns and
\* "all_results.extend(results)".
FanOutRetrieve ==
    /\ opc = "loop" /\ si <= Len(subqueries)
    /\ LET query_variant == query_variants[vi]
           call == [subquery |-> si, variant |-> vi,
                    hyde_doc |-> IF hyde = "none" THEN <<"unset">> ELSE HydeDoc(query_variant),
                    search_query |-> SearchQuery(query_variant)]
       IN  /\ calls' = Append(calls, call)
           /\ \E n \in 0..MaxCallResults :
                 fan_results' = fan_results \o [k \in 1..n |-> <<Len(calls) + 1, k>>]
    /\ Advance
    /\ UNCHANGED <<fan_engine, hyde, subqueries, query_variants, opc>>
    /\ UNCHANGED others_o

\* _retrieve raises: the exception leaves query().
FanOutRetrieveFails ==
    /\ opc = "loop" /\ si <= Len(subqueries)
    /\ opc' = "raised"
    /\ UNCHANGED <<fan_engine, hyde, subqueries, query_variants, si, vi, calls, fan_results>>
    /\ UNCHANGED others_o

\* Both loops are over: the engine goes on to deduplicate all_results.
FanOutDone ==
    /\ opc = "loop" /\ si > Len(subqueries)
    /\ opc' = "collected"
    /\ UNCHANGED <<fan_engine, hyde, subqueries, query_variants, si, vi, calls, fan_results>>
    /\ UNCHANGED others_o

ONext ==
    \/ FanOutRetrieve
    \/ FanOutRetrieveFails
    \/ FanOutDone

----------------------------------------------------------------------------
(* Graph traversal search: AdvancedQueryEngine._graph_traversal_search.        *)
(* Scores are rationals <<numerator, denominator>>; weights are tenths and     *)
(* boosts hundredths.                                                          *)

MaxTopK == 3            \* largest top_k
MaxSemanticRows == 2    \* rows of get_related_chunks_via_relationships (limit=5)
MaxEntityRows == 1      \* rows of get_related_chunks_via_entities (limit=3)

SeedFraction == 3       \* top_k // 3
TraverseTop == 3        \* initial_results[:3]
MinWeightTenths == 5    \* min_weight=0.5
EntityHopHundredths == 70   \* result.score * 0.7

GraphChunkIds == {"c1", "c2", "c3", "c4"}

\* Scores of an initial result.
SeedScores == {1, 2}

RelationTypes == {"ELABORATES", "SUPPORTS", "CONTRADICTS", "FOLLOWS"}

\* r.weight >= min_weight, in tenths.
WeightTenths == {MinWeightTenths, 10}

\* Mutant of RelationshipBoost: every relationship type counts the same.
RelationshipBoostFlat(rel_type) == 100

\* relationship_boost, in hundredths.
RelationshipBoost(rel_type) ==
    CASE rel_type = "ELABORATES" -> 120
      [] rel_type = "SUPPORTS" -> 115
      [] rel_type = "CONTRADICTS" -> 90
      [] OTHER -> 100

\* A row of _vector_search; seed is bookkeeping (0: not reached from a seed).
InitialResult(c, s) ==
    [chunk_id |-> c, score |-> <<s, 1>>, reasoning_path |-> << >>, seed |-> 0]

\* "score=result.score * weight * relationship_boost"
SemanticResult(result, n, row) ==
    [chunk_id |-> row[1],
     score |-> <<result.score[1] * row[3] * RelationshipBoost(row[2]),
                 result.score[2] * 10 * 100>>,
     reasoning_path |-> <<"semantic_relationship", row[2], row[3]>>,
     seed |-> n]

\* "score=result.score * 0.7"
EntityResult(result, n, c) ==
    [chunk_id |-> c,
     score |-> <<result.score[1] * EntityHopHundredths, result.score[2] * 100>>,
     reasoning_path |-> <<"entity">>,
     seed |-> n]

\* Rows of get_related_chunks_via_relationships: <<chunk, rel_type, weight>>,
\* "ORDER BY r.weight DESC".
SemanticRows ==
    {rows \in UNION {[1..n -> GraphChunkIds \X RelationTypes \X WeightTenths] :
                        n \in 0..MaxSemanticRows} :
        \A i \in 1..(Len(rows) - 1) : rows[i][3] >= rows[i + 1][3]}

\* Rows of get_related_chunks_via_entities: one per chunk, "c1.id <> c2.id".
EntityRows(c) == DistinctSeqs(GraphChunkIds \ {c}, MaxEntityRows)

\* The seeds the loop runs over.
SeedCount == Min(TraverseTop, Len(initial_results))

GInit ==
    /\ graph_top_k \in 0..MaxTopK
    \* At most top_k // 3 rows; the first row is named "c1".
    /\ initial_results \in
          {<< >>} \cup
          {<<InitialResult("c1", s)>> : s \in {x \in SeedScores : graph_top_k \div SeedFraction >= 1}}
    /\ traversed = 0
    /\ graph_results = initial_results
    /\ graph_returned = << >>
    /\ gpc = "traverse"

\* One pass of "for result in initial_results[:3]".
Traverse ==
    /\ gpc = "traverse" /\ traversed < SeedCount
    /\ LET result == initial_results[traversed + 1]
       IN  \E semantic_related \in SemanticRows, entity_related \in EntityRows(result.chunk_id) :
              graph_results' =
                  graph_results
                  \o [i \in 1..Len(semantic_related) |->
                         SemanticResult(result, traversed + 1, semantic_related[i])]
                  \o [i \in 1..Len(entity_related) |->
                         EntityResult(result, traversed + 1, entity_related[i])]
    /\ traversed' = traversed + 1
    /\ UNCHANGED <<graph_top_k, initial_results, graph_returned, gpc>>
    /\ UNCHANGED others_g

\* A repository call raises: the exception leaves the search.
TraverseFails ==
    /\ gpc = "traverse" /\ traversed < SeedCount
    /\ gpc' = "raised"
    /\ UNCHANGED <<graph_top_k, initial_results, traversed, graph_results, graph_returned>>
    /\ UNCHANGED others_g

\* "for r in sorted(all_results, key=score, reverse=True): if r.chunk_id not in
\* seen ..." and "return unique_results[:top_k]".
GraphReturn ==
    /\ gpc = "traverse" /\ traversed >= SeedCount
    /\ graph_returned' = Take(Deduplicated(SortByScoreDesc(graph_results)), graph_top_k)
    /\ gpc' = "done"
    /\ UNCHANGED <<graph_top_k, initial_results, traversed, graph_results>>
    /\ UNCHANGED others_g

GNext ==
    \/ Traverse
    \/ TraverseFails
    \/ GraphReturn

----------------------------------------------------------------------------
(* Entity persistence: the entities and relationships of a chunk as            *)
(* _process_chunks_streaming stores them, when no store call fails.            *)

MaxEntityChunks == 2    \* chunks with an extraction

EntityNames == {"A", "B", "C"}

EntityTypes == {"PERSON", "ORGANIZATION"}

EntityKeys == EntityNames \X EntityTypes

\* No node holds this key.
NoNode == 0

\* Neo4jRepository.create_entity: "MERGE (e:Entity {name, entity_type}) ON CREATE
\* SET e.id = $id": a node that exists keeps its id.
CreateEntity(store, key, id) ==
    IF store[key] = NoNode THEN [store EXCEPT ![key] = id] ELSE store

\* Neo4jRepository.create_relationship: "MATCH (source:Entity {id: $source_id})
\* MATCH (target:Entity {id: $target_id}) MERGE (source)-[r:RELATED]->(target)":
\* without both nodes nothing is merged.
CreateRelationship(store, edges, source_id, target_id) ==
    IF /\ \E k \in EntityKeys : store[k] = source_id
       /\ \E k \in EntityKeys : store[k] = target_id
    THEN edges \cup {<<source_id, target_id>>}
    ELSE edges

EInit ==
    /\ entity_store = [k \in EntityKeys |-> NoNode]
    /\ contains_entity = {}
    /\ related = {}
    /\ next_uuid = 1
    /\ entity_chunks = 0
    /\ last_extraction = << >>

\* One chunk: the extractor returns two entities, each Entity(...) with a fresh
\* uuid4 id, and a relationship between their ids; the entities are saved and
\* linked to the chunk, then the relationship is created.
PersistExtraction ==
    /\ entity_chunks < MaxEntityChunks
    /\ \E source \in EntityKeys, target \in EntityKeys :
          /\ source[1] # target[1]
          /\ LET source_id == next_uuid
                 target_id == next_uuid + 1
                 chunk == entity_chunks + 1
                 saved == CreateEntity(CreateEntity(entity_store, source, source_id),
                                       target, target_id)
             IN  /\ entity_store' = saved
                 /\ contains_entity' = contains_entity
                                         \cup {<<chunk, saved[source]>>, <<chunk, saved[target]>>}
                 /\ related' = CreateRelationship(saved, related, source_id, target_id)
                 /\ last_extraction' = <<source, target>>
    /\ next_uuid' = next_uuid + 2
    /\ entity_chunks' = entity_chunks + 1
    /\ UNCHANGED others_e

ENext == PersistExtraction

----------------------------------------------------------------------------
(* Specifications: one per subsystem; the other subsystems stay idle. *)

QIdle ==
    /\ engine = "basic"
    /\ min_similarity_threshold = 0
    /\ chunk_scores = << >>
    /\ qpc = "done"
    /\ all_results = << >>
    /\ unique_results = << >>
    /\ response = NoResponse
    /\ failed_call = "none"

IIdle ==
    /\ ipath = "streaming"
    /\ content_blank = FALSE
    /\ extract_entities = FALSE
    /\ n_chunks = 0
    /\ ipc = "done"
    /\ generated = 0
    /\ cur = 0
    /\ doc_created = FALSE
    /\ created_chunks = {}
    /\ embedded = {}
    /\ extracted = {}
    /\ extraction_failed = {}
    /\ batch_state = << >>
    /\ chunk_count = 0
    /\ ingest_result = "pending"
    /\ ingest_failure = "none"

HIdle ==
    /\ min_community_size = 3
    /\ current_graph = EmptyGraph
    /\ current_level = 0
    /\ groups = << >>
    /\ level_communities = << >>
    /\ all_levels = << >>
    /\ persisted = {}
    /\ hpc = "done"
    /\ hresult = "pending"
    /\ clustered = << >>
    /\ summary_failed = {}

FIdle ==
    /\ vector_results = << >>
    /\ bm25_results = << >>
    /\ indexed_chunks = << >>
    /\ fusion = "idle"
    /\ rrf_k = 0
    /\ normalize = FALSE
    /\ fused = << >>
    /\ fusion_raised = FALSE

CIdle ==
    /\ chunker = "idle"
    /\ text = << >>
    /\ chunk_size = 1
    /\ chunk_overlap = 0
    /\ start = 0
    /\ chunk_index = 0
    /\ sentences = << >>
    /\ low_similarity = << >>
    /\ min_chunk_size = 1
    /\ max_chunk_size = 1
    /\ chunks = << >>
    /\ cpc = "done"

RIdle ==
    /\ feedback_entry = NoFeedback
    /\ feedback_count = 0
    /\ feedback_file = << >>

SIdle ==
    /\ query_words = << >>
    /\ strategy = "hybrid"
    /\ resolved = "idle"

TIdle ==
    /\ leaf_call = "none"
    /\ cache = "disabled"
    /\ attempt_number = 0
    /\ outcomes = << >>
    /\ leaf_result = <<"pending">>
    /\ slept = 0
    /\ tpc = "idle"

KIdle ==
    /\ redis_mode = "not_configured"
    /\ redis_store = << >>
    /\ memory_cache = << >>
    /\ max_memory_items = 0
    /\ cache_hits = 0
    /\ cache_misses = 0
    /\ last_op = <<"idle">>
    /\ expected = << >>
    /\ stale = {}

OIdle ==
    /\ fan_engine = "advanced"
    /\ hyde = "none"
    /\ subqueries = << >>
    /\ query_variants = << >>
    /\ si = 0
    /\ vi = 0
    /\ calls = << >>
    /\ fan_results = << >>
    /\ opc = "idle"

GIdle ==
    /\ graph_top_k = 0
    /\ initial_results = << >>
    /\ traversed = 0
    /\ graph_results = << >>
    /\ graph_returned = << >>
    /\ gpc = "idle"

EIdle ==
    /\ entity_store = << >>
    /\ contains_entity = {}
    /\ related = {}
    /\ next_uuid = 0
    /\ entity_chunks = 0
    /\ last_extraction = << >>

InitQuery == QInit /\ IIdle /\ HIdle /\ FIdle /\ CIdle /\ RIdle /\ SIdle /\ TIdle /\ KIdle /\ OIdle /\ GIdle /\ EIdle

InitIngest == IInit /\ QIdle /\ HIdle /\ FIdle /\ CIdle /\ RIdle /\ SIdle /\ TIdle /\ KIdle /\ OIdle /\ GIdle /\ EIdle

InitHierarchy == HInit /\ QIdle /\ IIdle /\ FIdle /\ CIdle /\ RIdle /\ SIdle /\ TIdle /\ KIdle /\ OIdle /\ GIdle /\ EIdle

InitFusion == FInit /\ QIdle /\ IIdle /\ HIdle /\ CIdle /\ RIdle /\ SIdle /\ TIdle /\ KIdle /\ OIdle /\ GIdle /\ EIdle

InitChunker == CInit /\ QIdle /\ IIdle /\ HIdle /\ FIdle /\ RIdle /\ SIdle /\ TIdle /\ KIdle /\ OIdle /\ GIdle /\ EIdle

InitFeedback == RInit /\ QIdle /\ IIdle /\ HIdle /\ FIdle /\ CIdle /\ SIdle /\ TIdle /\ KIdle /\ OIdle /\ GIdle /\ EIdle

InitStrategy == SInit /\ QIdle /\ IIdle /\ HIdle /\ FIdle /\ CIdle /\ RIdle /\ TIdle /\ KIdle /\ OIdle /\ GIdle /\ EIdle

InitRetry == TInit /\ QIdle /\ IIdle /\ HIdle /\ FIdle /\ CIdle /\ RIdle /\ SIdle /\ KIdle /\ OIdle /\ GIdle /\ EIdle

InitCache == KInit /\ QIdle /\ IIdle /\ HIdle /\ FIdle /\ CIdle /\ RIdle /\ SIdle /\ TIdle /\ OIdle /\ GIdle /\ EIdle

InitFanOut == OInit /\ QIdle /\ IIdle /\ HIdle /\ FIdle /\ CIdle /\ RIdle /\ SIdle /\ TIdle /\ KIdle /\ GIdle /\ EIdle

InitGraph == GInit /\ QIdle /\ IIdle /\ HIdle /\ FIdle /\ CIdle /\ RIdle /\ SIdle /\ TIdle /\ KIdle /\ OIdle /\ EIdle

InitEntities == EInit /\ QIdle /\ IIdle /\ HIdle /\ FIdle /\ CIdle /\ RIdle /\ SIdle /\ TIdle /\ KIdle /\ OIdle /\ GIdle

SpecQuery == InitQuery /\ [][QNext]_vars

SpecIngest == InitIngest /\ [][INext]_vars

\* The event loop runs every task of asyncio.gather: a task inside its section
\* reaches the end of the section (the extractor's retries are bounded and every
\* exception is caught), and asyncio.Semaphore wakes its waiters in FIFO order,
\* so a waiting task is not passed over for ever.
BatchFairness ==
    \A i \in 1..MaxDocChunks :
        /\ SF_vars(i \in DOMAIN batch_state /\ BatchAcquire(i))
        /\ WF_vars(i \in DOMAIN batch_state /\ (BatchExtract(i) \/ BatchExtractFails(i)))

SpecIngestFair == InitIngest /\ [][INext]_vars /\ BatchFairness

SpecHierarchy == InitHierarchy /\ [][HNext]_vars

SpecFusion == InitFusion /\ [][FNext]_vars

SpecChunker == InitChunker /\ [][CNext]_vars

\* The generator is driven to exhaustion by its consumer
\* ("async for chunk in ..." / list(...)).
SpecChunkerFair == InitChunker /\ [][CNext]_vars /\ WF_vars(CNext)

SpecFeedback == InitFeedback /\ [][RNext]_vars

SpecStrategy == InitStrategy /\ [][SNext]_vars

SpecRetry == InitRetry /\ [][TNext]_vars

SpecCache == InitCache /\ [][KNext]_vars

SpecFanOut == InitFanOut /\ [][ONext]_vars

SpecGraph == InitGraph /\ [][GNext]_vars

SpecEntities == InitEntities /\ [][ENext]_vars

----------------------------------------------------------------------------
(* Claims about the query pipeline *)

MaxOf(S) == CHOOSE m \in S : \A x \in S : x <= m

ScoresOf(results, c) ==
    {results[i].score : i \in {j \in 1..Len(results) : results[j].chunk_id = c}}

\* C1: right after deduplication the list holds exactly one entry per chunk_id of
\* the candidate set, and that entry carries the maximum score among the
\* candidates with that chunk_id.
C1_DedupKeepsMaxScore ==
    qpc = "deduped" =>
        \A c \in ChunkIds :
            LET entries == {i \in 1..Len(unique_results) : unique_results[i].chunk_id = c}
            IN  IF ScoresOf(all_results, c) = {}
                THEN entries = {}
                ELSE /\ Cardinality(entries) = 1
                     /\ \A i \in entries :
                            unique_results[i].score = MaxOf(ScoresOf(all_results, c))

GatedEngine == engine \in {"basic", "advanced"}

\* C2: with a threshold > 0, QueryEngine and AdvancedQueryEngine return only sources
\* whose retrieval score reaches the threshold; an answer always has such a
\* source; and the insufficient-evidence response has no sources and is given
\* only when no candidate of the gate reaches the threshold.
C2_GateNeverFallsBack ==
    (GatedEngine /\ min_similarity_threshold > 0 /\ response.kind = "response") =>
        /\ \A i \in 1..Len(response.sources) :
               response.sources[i].retrieval_score >= min_similarity_threshold
        /\ response.answer \in {"generated", "error_text"} => Len(response.sources) > 0
        /\ response.reason = "below_similarity_threshold" =>
               /\ response.sources = << >>
               /\ \A i \in 1..Len(unique_results) :
                      unique_results[i].score < min_similarity_threshold

\* C2 witness: candidates were retrieved, none reached the threshold, and the
\* query ended with the insufficient-evidence response.
C2_Witness ==
    /\ GatedEngine /\ min_similarity_threshold > 0 /\ qpc = "done"
    /\ Len(unique_results) > 1
    /\ response.reason = "below_similarity_threshold"

\* C3: with a threshold of 0 the insufficient-evidence response is never returned.
C3_ZeroThresholdNeverInsufficient ==
    min_similarity_threshold = 0 =>
        /\ response.reason # "below_similarity_threshold"
        /\ response.answer # "insufficient"

\* C3 witness: threshold 0, the gate has run on candidates none of which has a
\* positive score (some negative, so the filter left nothing), and the query
\* went on to reranking with all of them.
C3_Witness ==
    /\ GatedEngine /\ min_similarity_threshold = 0 /\ qpc = "rerank"
    /\ Len(unique_results) > 1
    /\ \A i \in 1..Len(unique_results) : unique_results[i].score < 0

\* C4: the feedback step gives every result the score it had going into the step
\* (the value the step reads for it, "rerank_score or score") plus the
\* accumulator of its own chunk_id.
C4_FeedbackAddsOwnAccumulator ==
    [][ApplyFeedback =>
          \A i \in 1..Len(unique_results) :
              /\ unique_results'[i].chunk_id = unique_results[i].chunk_id
              /\ unique_results'[i].score =
                     ScoreForFeedback(unique_results[i])
                       + GetChunkFeedbackScore(chunk_scores, unique_results[i].chunk_id)]_vars

\* C6: a query during which an external call failed ends as an error raised to
\* the caller, never as a response.
C6_FailureSurfacesAsError ==
    (qpc = "done" /\ failed_call # "none") => response.kind = "raised"

----------------------------------------------------------------------------
(* Claims about ingestion *)

\* C5: when entity extraction failed for some chunk of the document and nothing
\* else failed, ingestion still returns normally with the full chunk count, and
\* every chunk is persisted and embedded and every other chunk entity-extracted.
C5_ExtractionFailureIsolated ==
    (ipc = "done" /\ extraction_failed # {} /\ ingest_failure = "none") =>
        /\ ingest_result = "ok"
        /\ chunk_count = n_chunks
        /\ created_chunks = 1..n_chunks
        /\ embedded = 1..n_chunks
        /\ extracted = (1..n_chunks) \ extraction_failed

\* C7: ingesting a document with blank content writes nothing to the GraphStore.
C7_BlankDocumentWritesNothing ==
    content_blank => (~doc_created /\ created_chunks = {} /\ embedded = {} /\ extracted = {})

----------------------------------------------------------------------------
(* Claims about the community hierarchy *)

\* C8: every level after the first is clustered on a graph with strictly fewer
\* nodes than the graph clustered at the level before it.
C8_NodeCountShrinks ==
    \A i \in 1..(Len(clustered) - 1) : clustered[i + 1] < clustered[i]

AllCommunities ==
    UNION {{all_levels[l][i] : i \in 1..Len(all_levels[l])} : l \in 1..Len(all_levels)}

\* C9: once the hierarchy is built, every community that is a member of a
\* community of the next level refers to it as its parent, and the communities
\* of the topmost level have no parent.
C9_ParentBackReference ==
    (hpc = "done" /\ hresult = "ok") =>
        /\ \A c \in AllCommunities, d \in AllCommunities :
               (d.level = c.level + 1 /\ c.id \in d.members) => c.parent_community_id = d.id
        /\ \A c \in AllCommunities :
               c.level = Len(all_levels) - 1 => c.parent_community_id = NoParent

\* C10: a summary failure never aborts the build: the build returns normally and
\* the community whose summary failed is persisted with the default summary.
C10_SummaryFailureDegrades ==
    (hpc = "done" /\ summary_failed # {}) =>
        /\ hresult = "ok"
        /\ \E c \in AllCommunities :
               c.members = summary_failed /\ c.summary = "default" /\ c.id \in persisted

----------------------------------------------------------------------------
(* Claims about hybrid fusion *)

InputChunkIds ==
    {vector_results[i].chunk_id : i \in 1..Len(vector_results)}
        \cup {indexed_chunks[bm25_results[i].idx + 1] : i \in 1..Len(bm25_results)}

\* C11: whatever fusion returns holds every chunk of either input list, once each.
C11_FusionKeepsUnion ==
    (fusion \in {"rrf", "combine"} /\ ~fusion_raised) =>
        /\ {fused[i].chunk_id : i \in 1..Len(fused)} = InputChunkIds
        /\ \A i, j \in 1..Len(fused) : i # j => fused[i].chunk_id # fused[j].chunk_id

\* C11 witness: a fusion returned a list for inputs that share one chunk and
\* each hold a chunk the other lacks.
C11_Witness ==
    /\ fusion \in {"rrf", "combine"} /\ ~fusion_raised
    /\ Len(vector_results) = 2 /\ Len(bm25_results) = 2
    /\ Cardinality(InputChunkIds) = 3

FusedEntry(c) == fused[CHOOSE j \in 1..Len(fused) : fused[j].chunk_id = c]

\* C12: combine_scores with normalize=True completes for every input, and the
\* maximum element of each non-empty score list gets the normalized score 1.
C12_NormalizedMaxIsOne ==
    (fusion = "combine" /\ normalize) =>
        /\ ~fusion_raised
        /\ \A i \in 1..Len(vector_results) :
               (\A j \in 1..Len(vector_results) :
                    vector_results[j].score <= vector_results[i].score)
                   => RatEqual(FusedEntry(vector_results[i].chunk_id).vector, <<1, 1>>)
        /\ \A i \in 1..Len(bm25_results) :
               (\A j \in 1..Len(bm25_results) :
                    bm25_results[j].score <= bm25_results[i].score)
                   => RatEqual(FusedEntry(indexed_chunks[bm25_results[i].idx + 1]).bm25, <<1, 1>>)

EqualDisjointLists ==
    /\ Len(vector_results) = Len(bm25_results)
    /\ Len(vector_results) >= 2
    /\ \A i \in 1..Len(vector_results), j \in 1..Len(bm25_results) :
           vector_results[i].chunk_id # indexed_chunks[bm25_results[j].idx + 1]

ItemsAtRank(r) == {vector_results[r].chunk_id, indexed_chunks[bm25_results[r].idx + 1]}

\* C13: for two equal-length lists without a common chunk, and every k, the RRF
\* score of a rank-1 item is at least the RRF score of every rank-2 item.
C13_RankOneNotBelowRankTwo ==
    (fusion = "rrf" /\ EqualDisjointLists) =>
        \A a \in ItemsAtRank(1), b \in ItemsAtRank(2) :
            ~RatGreater(FusedEntry(b).score, FusedEntry(a).score)

\* C13 witness: RRF with k = 0 has run on two disjoint lists of two chunks each.
C13_Witness ==
    fusion = "rrf" /\ EqualDisjointLists /\ rrf_k = 0 /\ Len(fused) = 4

----------------------------------------------------------------------------
(* Claims about the chunkers *)

\* C14: the chunks emitted so far carry chunk_index 0, 1, ..., n-1 in emission
\* order, whether or not empty candidates were skipped in between.
C14_ChunkIndexContiguous ==
    \A i \in 1..Len(chunks) : chunks[i].chunk_index = i - 1

\* C14 witness: the fixed-size chunker yielded a chunk, skipped an empty
\* candidate, and yielded a second chunk.
C14_Witness ==
    /\ chunker = "fixed" /\ Len(chunks) = 2
    /\ chunks[2].start_char > chunks[1].end_char

Covered(p) == \E i \in 1..Len(chunks) : chunks[i].start_char <= p /\ p < chunks[i].end_char

\* C15: when the fixed-size chunker is done, no run of consecutive uncovered
\* positions of the text is longer than chunk_overlap.
C15_NoGapBeyondOverlap ==
    (chunker = "fixed" /\ cpc = "done") =>
        \A p \in 0..(Len(text) - 1 - chunk_overlap) :
            \E q \in p..(p + chunk_overlap) : Covered(q)

----------------------------------------------------------------------------
(* Claims about feedback recording *)

\* C16: a record_feedback call with helpful=true never lowers an accumulator, so
\* the accumulator of a chunk is non-decreasing across helpful calls.
C16_HelpfulNeverLowers ==
    [][(RecordFeedback /\ feedback_entry'.helpful) =>
          \A c \in ChunkIds :
              GetChunkFeedbackScore(chunk_scores', c) >= GetChunkFeedbackScore(chunk_scores, c)]_vars

\* C16 witness: two helpful calls on the same chunk, one with a rating and one
\* without, have raised its accumulator twice.
C16_Witness ==
    /\ feedback_count = 2
    /\ feedback_entry.helpful /\ feedback_entry.rating = 0
    /\ GetChunkFeedbackScore(chunk_scores, feedback_entry.chunk_id) = MaxRating + 1

----------------------------------------------------------------------------
(* Further claims about the query pipeline *)

----------------------------------------------------------------------------
(* Claims about strategy resolution *)

HasWord(w) == \E i \in 1..Len(query_words) : query_words[i] = w

HasPhrase(p) ==
    \E i \in 0..(Len(query_words) - Len(p)) : \A j \in 1..Len(p) : query_words[i + j] = p[j]

\* The query asks who or what something is.
IdentityLanguage == HasWord("who") \/ HasWord("Who") \/ HasPhrase(<<"what", "is">>)

\* The query asks how things relate.
RelationalLanguage == HasWord("between") \/ HasWord("link")

\* The query asks for an overview.
BroadLanguage == HasWord("overview") \/ HasPhrase(<<"tell", "me", "about">>)

\* C18: ADAPTIVE is never the resolved strategy, and an ADAPTIVE query with
\* broad language and neither identity nor relational language resolves to
\* COMMUNITY_BASED.
C18_BroadResolvesToCommunity ==
    resolved \notin {"none", "idle"} =>
        /\ resolved # "adaptive"
        /\ (strategy = "adaptive" /\ BroadLanguage /\ ~IdentityLanguage /\ ~RelationalLanguage)
               => resolved = "community_based"

----------------------------------------------------------------------------
(* Claims about the retried leaf calls *)

Failed(i) == outcomes[i][1] = "raise"

\* C19: a leaf call makes at most 3 attempts; when it returns, it returns the
\* value of its first successful attempt; when 3 attempts have failed, the
\* caller receives an error and no value.
C19_BoundedRetryThenPropagate ==
    /\ attempt_number <= 3
    /\ Len(outcomes) = attempt_number
    /\ tpc = "returned" =>
          /\ \A i \in 1..(attempt_number - 1) : Failed(i)
          /\ outcomes[attempt_number][1] = "ok"
          /\ leaf_result = <<"value", outcomes[attempt_number][2]>>
    /\ (attempt_number = 3 /\ \A i \in 1..3 : Failed(i)) =>
          /\ tpc = "raised"
          /\ leaf_result[1] = "RetryError"
    /\ tpc = "raised" => (attempt_number = 3 /\ \A i \in 1..3 : Failed(i))
    /\ tpc \in {"calling", "waiting"} =>
          /\ leaf_result = <<"pending">>
          /\ \A i \in 1..attempt_number : Failed(i)

\* Three attempts failed and the caller got the error.
C19_Witness ==
    /\ tpc = "raised"
    /\ attempt_number = 3
    /\ leaf_result[1] = "RetryError"

----------------------------------------------------------------------------
(* Further claims about ingestion *)

\* Chunk i has been through its processing steps: it is stored, embedded and,
\* when entities are requested, its extraction has been run (to success or to a
\* logged failure).
Processed(i) ==
    /\ i \in created_chunks
    /\ i \in embedded
    /\ extract_entities => i \in (extracted \cup extraction_failed)

\* C20: while a document is ingested, every chunk before the last generated one
\* is already persisted, embedded and, when requested, entity-extracted: chunk
\* i + 1 is generated only after chunk i is processed, so the chunk list never
\* exists in full before processing starts.
C20_ChunkProcessedBeforeNext ==
    ipath \in {"streaming", "enhanced"} =>
        \A i \in 1..(generated - 1) : Processed(i)

\* C21: in batch entity extraction, under every interleaving of the tasks, at
\* most 2 chunks are inside their extraction section at any moment, and every
\* chunk is eventually processed or individually failed.
C21_BoundedSectionAllFinish ==
    /\ [](ipath = "batch" => Cardinality(InSection) <= 2)
    /\ \A i \in 1..MaxDocChunks :
          (ipath = "batch" /\ i <= n_chunks)
              ~> (i \in DOMAIN batch_state /\ batch_state[i] \in {"done", "failed"})

\* Two chunks are inside the section while a third one waits for the semaphore.
C21_Witness ==
    /\ ipath = "batch"
    /\ Cardinality(InSection) = 2
    /\ \E i \in DOMAIN batch_state : batch_state[i] = "waiting"

----------------------------------------------------------------------------
(* Claims about the cache *)

\* C22: when set(k, v) has completed and no later set, delete, clear or eviction
\* has touched k, get(k) returns v, whether Redis is healthy, unavailable or
\* failing on some calls only.
C22_GetReturnsLastSet ==
    (last_op[1] = "get" /\ expected[last_op[2]] # NoValue) =>
        last_op[3] = expected[last_op[2]]

\* C23: after invalidate_all has returned, get_result returns no query result
\* that was cached before the invalidation.
C23_NoResultFromBeforeInvalidation ==
    (last_op[1] = "get" /\ last_op[2] \in stale) => last_op[3] = NoValue

----------------------------------------------------------------------------
(* Claims about the query fan-out *)

\* C24: with HyDE disabled or failing, generate_hypothetical_document returns
\* the query itself, so in AdvancedQueryEngine.query "hyde_doc != query_variant"
\* is false and _retrieve is called with the unmodified query variant.
C24_DisabledHydeKeepsQuery ==
    (fan_engine = "advanced" /\ hyde \in {"disabled", "fails"}) =>
        \A c \in 1..Len(calls) :
            /\ calls[c].hyde_doc = Str(query_variants[calls[c].variant])
            /\ calls[c].search_query = Str(query_variants[calls[c].variant])

\* The text a call searched with, whatever the type of the value.
SearchText(c) ==
    IF calls[c].search_query[1] = "str"
    THEN calls[c].search_query[2]
    ELSE calls[c].search_query[2][1]

\* C27: once the fan-out is over, the strategy has run once for every
\* (sub-query, variant) pair, the text of every sub-query was the search text of
\* at least one call when no HyDE passage replaces it, and every returned
\* candidate is in all_results.
C27_EverySubQuerySearched ==
    opc = "collected" =>
        /\ Len(calls) = Len(subqueries) * Len(query_variants)
        /\ \A s \in 1..Len(subqueries), v \in 1..Len(query_variants) :
              \E c \in 1..Len(calls) : calls[c].subquery = s /\ calls[c].variant = v
        /\ hyde # "generates" =>
              \A s \in 1..Len(subqueries) :
                  \E c \in 1..Len(calls) : SearchText(c) = subqueries[s]
        /\ \A c \in 1..Len(calls) :
              \A r \in 1..Len(fan_results) :
                  (fan_results[r][1] = c /\ fan_results[r][2] > 1) =>
                      \E p \in 1..Len(fan_results) : fan_results[p] = <<c, fan_results[r][2] - 1>>

----------------------------------------------------------------------------
(* Further claims about the chunkers *)

RECURSIVE StatedSplits(_, _, _, _, _)
\* The split points of the stated rule: before sentence i + 1 the current chunk
\* holds the sentences from its first one (the last split point) to sentence i,
\* and it ends there when the similarity is low and that size has reached the
\* minimum, or that size has reached the maximum.
StatedSplits(lens, low, i, splits, limits) ==
    IF i >= Len(low) THEN splits
    ELSE LET accumulated == SumLen(lens, splits[Len(splits)] + 1, i + 1)
         IN  IF (low[i + 1] /\ accumulated >= limits[1]) \/ accumulated >= limits[2]
             THEN StatedSplits(lens, low, i + 1, Append(splits, i + 1), limits)
             ELSE StatedSplits(lens, low, i + 1, splits, limits)

\* The stated split points, closed with the final partial chunk.
StatedClosedSplits(lens, low, limits) ==
    LET splits == StatedSplits(lens, low, 0, <<0>>, limits)
    IN  IF splits[Len(splits)] # Len(lens) THEN Append(splits, Len(lens)) ELSE splits

\* C25: the semantic chunker ends the current chunk before the next sentence
\* exactly when (the similarity to the next sentence is below the threshold and
\* the size of the sentences in the current chunk, its first one included, is at
\* least min_chunk_size) or that size is at least max_chunk_size; the last
\* partial chunk is emitted whatever its size.
C25_SplitsFollowStatedRule ==
    (chunker = "semantic" /\ cpc = "done" /\ Len(sentences) >= 2) =>
        chunks = SemanticChunks(sentences,
                     StatedClosedSplits(sentences, low_similarity,
                                        <<min_chunk_size, max_chunk_size>>), 0, 0)

\* C29: the fixed-size chunking loop terminates for every text, chunk_size and
\* chunk_overlap: every iteration moves start strictly forward, never past the
\* end of the text, and the loop is left in the end.
C29_ChunkLoopTerminates ==
    /\ [][(YieldChunk \/ SkipEmptyChunk) => (start' > start /\ start' <= Len(text))]_vars
    /\ (chunker = "fixed") ~> (cpc = "done" /\ start >= Len(text))

\* The loop has run to its end with chunk_overlap >= chunk_size, through a
\* sentence-boundary back-off.
C29_Witness ==
    /\ chunker = "fixed"
    /\ cpc = "done"
    /\ chunk_overlap >= chunk_size
    /\ Len(chunks) >= 2
    /\ \E i \in 1..Len(chunks) :
          /\ chunks[i].end_char < Len(text)
          /\ chunks[i].end_char - chunks[i].start_char < chunk_size

----------------------------------------------------------------------------
(* Claims about the graph traversal search *)

\* The stated multipliers, in hundredths.
StatedMultiplier(rel_type) ==
    CASE rel_type = "ELABORATES" -> 120
      [] rel_type = "SUPPORTS" -> 115
      [] rel_type = "CONTRADICTS" -> 90
      [] OTHER -> 100

\* seed.score x edge.weight x multiplier, or seed.score x 0.7 for an entity hop.
StatedScore(r) ==
    LET seed_score == initial_results[r.seed].score
    IN  IF r.reasoning_path[1] = "entity"
        THEN <<seed_score[1] * 70, seed_score[2] * 100>>
        ELSE <<seed_score[1] * r.reasoning_path[3] * StatedMultiplier(r.reasoning_path[2]),
               seed_score[2] * 1000>>

\* C26: the search returns at most top_k results with pairwise distinct chunk
\* ids in non-increasing score order; every expanded candidate has the stated
\* score; the entry returned for a chunk is its maximum-scoring candidate.
C26_GraphTraversalResult ==
    /\ \A i \in 1..Len(graph_results) :
          graph_results[i].seed # 0 =>
              RatEqual(graph_results[i].score, StatedScore(graph_results[i]))
    /\ gpc = "done" =>
          /\ Len(graph_returned) <= graph_top_k
          /\ \A i, j \in 1..Len(graph_returned) :
                i # j => graph_returned[i].chunk_id # graph_returned[j].chunk_id
          /\ \A i \in 1..(Len(graph_returned) - 1) :
                ~RatGreater(graph_returned[i + 1].score, graph_returned[i].score)
          /\ \A i \in 1..Len(graph_returned) :
                /\ \E k \in 1..Len(graph_results) : graph_results[k] = graph_returned[i]
                /\ \A k \in 1..Len(graph_results) :
                      graph_results[k].chunk_id = graph_returned[i].chunk_id =>
                          ~RatGreater(graph_results[k].score, graph_returned[i].score)

\* The search returned top_k results; one chunk was reached in several ways with
\* different scores, and the entry returned for it is its ELABORATES candidate.
C26_Witness ==
    /\ gpc = "done"
    /\ graph_top_k > 0
    /\ Len(graph_returned) = graph_top_k
    /\ \E i \in 1..Len(graph_returned) :
          /\ graph_returned[i].seed # 0
          /\ graph_returned[i].reasoning_path[1] = "semantic_relationship"
          /\ graph_returned[i].reasoning_path[2] = "ELABORATES"
          /\ \E k \in 1..Len(graph_results) :
                /\ graph_results[k].chunk_id = graph_returned[i].chunk_id
                /\ RatGreater(graph_returned[i].score, graph_results[k].score)

----------------------------------------------------------------------------
(* The similarity gate of the extending engine *)

\* C28: UltraAdvancedQueryEngine.query applies the gate of the engine it extends:
\* with a threshold > 0 it returns no source whose retrieval score is below the
\* threshold, and when no candidate reaches the threshold it answers with the
\* insufficient-evidence response instead of a generated answer.
C28_UltraAppliesGate ==
    (engine = "ultra" /\ min_similarity_threshold > 0 /\ response.kind = "response") =>
        /\ \A i \in 1..Len(response.sources) :
               response.sources[i].retrieval_score >= min_similarity_threshold
        /\ (response.answer \in {"generated", "error_text"}) =>
               \E i \in 1..Len(response.sources) :
                   response.sources[i].retrieval_score >= min_similarity_threshold

----------------------------------------------------------------------------
(* Claims about entity persistence *)

\* C30: after a chunk whose extraction gave entities A and B and a relationship
\* A -> B is ingested, and no store call failed, a RELATED edge joins the stored
\* Entity nodes of A and B, also when A or B was stored by an earlier chunk and
\* merged by (name, entity_type).
C30_RelatedEdgeJoinsStoredNodes ==
    last_extraction # << >> =>
        <<entity_store[last_extraction[1]], entity_store[last_extraction[2]]>> \in related

====
